---- MODULE Spec2Model ----
(***************************************************************************)
(* Model of the discovery core of localhost-dashboard:                     *)
(*   Scanner        (scanner.ts)        the server reconciliation engine   *)
(*   AHKScanner     (ahk-scanner.ts)    the script reconciliation engine   *)
(*   HealthChecker  (health-checker.ts) the health prober                  *)
(*   updater.ts     the status of the auto-updater (self = "Updater")      *)
(* The three objects only meet through the settings store and through the  *)
(* scanner's update listener, so a behaviour follows ONE object, chosen in *)
(* Init (variable self); the fields timer, items, ... are that object's.   *)
(* The metric histories of a record are written by the enrich loop and read *)
(* by nothing in the main process; a behaviour follows them when the        *)
(* variable histories, chosen in Init, is TRUE.  A behaviour of the server   *)
(* engine also follows the probes of the health prober, which the update    *)
(* listener feeds, when the variable probing is TRUE.  The await of the     *)
(* working-directory lookup comes right before the await of pidusage for    *)
(* the same record and writes nothing but the record's cwd and the cache; a *)
(* behaviour follows it when the variable caching is TRUE.  The command    *)
(* line and the name si.processes() reports are chosen in Init (variable    *)
(* procText) and are the same for every process.                            *)
(*                                                                         *)
(* Time is the value of Date.now(), counted in units of the smallest scan  *)
(* interval (in seconds in a behaviour of the updater).  An await is a point where a cycle is parked in cycles with   *)
(* its pc; the code between two awaits runs in one action.                 *)
(***************************************************************************)
EXTENDS Integers, Sequences, FiniteSets, TLC

VARIABLES
  self,        \* which object this behaviour follows
  platform,    \* process.platform
  world,       \* the connections (AutoHotkey processes) that can exist, in OS order
  horizon,     \* the value at which Date.now() stops advancing
  histories,   \* whether this behaviour follows cpuHistory / memoryHistory
  probing,     \* whether a behaviour of the server engine follows the prober's ticks
  caching,     \* whether this behaviour follows the cwd of the records and cwdCache
  procText,    \* command and name si.processes() reports for the processes
  clock,       \* Date.now()
  listening,   \* what the OS would report right now (connections / AHK processes)
  settings,    \* the settings store: scanIntervalMs, ports, scanAllPorts
  changes,     \* history: the settings:update calls handled so far
  timer,       \* this.timer: index into liveTimers, 0 = undefined
  liveTimers,  \* the interval timers of this object that the event loop still holds
  lastCall,    \* history: the last of start()/stop() called on the object
  items,       \* this.items: Map in insertion order
  cycles,      \* scan() invocations parked at an await, in start order
  op,          \* history: the operation that made the last step
  emitted,     \* the events emitted by the last step, in order
  ended,       \* how a scan() invocation ended in the last step: "none", "try", "catch"
  recon,       \* history: the reconciliation of the last step (its now, keys, ...)
  lastEv,      \* history: per key, its last new/stopped event ("again": a new after a stopped)
  servers,     \* HealthChecker.servers
  results,     \* HealthChecker.results: Map in insertion order
  intervalMs,  \* HealthChecker.intervalMs
  checks,      \* checkAll() invocations parked at Promise.allSettled
  cwdCache,    \* scanner.ts cwdCache: per pid, the entry { cwd, time }
  cwdLog,      \* history: the cwd lookup, or the resolution, of the last cycle step
  isPackaged,    \* updater.ts: app.isPackaged, as passed to initUpdater
  currentStatus, \* updater.ts currentStatus.state
  timeouts,      \* the setTimeout callbacks of updater.ts the event loop holds
  listeners,     \* autoUpdater: per event, how often its handler is registered
  ipcHandlers,   \* ipcMain: per updater channel, how many handlers it has
  flight,        \* autoUpdater: the request in flight: "none", "check", "download"
  inits          \* history: the initUpdater calls so far

vars == << self, platform, world, horizon, histories, probing, caching, procText, clock, listening, settings, changes, timer, liveTimers,
           lastCall, items, cycles, op, emitted, ended, recon, lastEv, servers, results,
           intervalMs, checks, cwdCache, cwdLog,
           isPackaged, currentStatus, timeouts, listeners, ipcHandlers, flight, inits >>

envVars    == << self, platform, world, horizon, histories, probing, caching, procText >>
healthVars == << servers, results, intervalMs, checks >>
updaterVars == << isPackaged, currentStatus, timeouts, listeners, ipcHandlers, flight, inits >>

\* ----------------------------------------------------------------- bounds
MaxTime   == 3    \* scan intervals after which Date.now() stops advancing
MaxCycles == 2    \* scan()/checkAll() invocations in flight at once
MaxChanges == 1   \* settings:update calls handled
CacheTime == 4    \* intervals of 10 s the cwd cache is followed for
HealthTime == 1   \* probe intervals the health prober is followed for
SampleTime == 2   \* scan intervals the sampling is followed for
GraceTime == 3    \* scan intervals followed when the cycles do not overlap
ReappearTime == 4 \* scan intervals an entity is followed for that goes and comes back
MaxInits == 2     \* initUpdater calls
MaxTimeouts == 2  \* setTimeout callbacks of updater.ts pending at once
UpdaterTime == 6  \* seconds the updater is followed for
MaxText == 5      \* characters of the ports text typed into the settings window

\* ------------------------------------------------------- program constants
GraceFactor == 2          \* "* 2" of the stale test

\* ------------------------------------------------------------- the inputs
Conn(pid, port) ==
  [pid |-> pid, localPort |-> port, scriptName |-> 0, protocol |-> "tcp"]

\* A listener systeminformation labels tcp6.
Conn6(pid, port) == [Conn(pid, port) EXCEPT !.protocol = "tcp6"]

\* The OS connection table, in the order the OS lists it.
ServerConns == << Conn(200, 5173), Conn(100, 3000) >>
\* One listener, one AutoHotkey process.
OneConn     == << Conn(100, 3000) >>
OneProc     == << Conn(200, 0) >>
\* A listener whose owning process the OS does not tell (pid 0).
ZeroConns   == << Conn(0, 3000), Conn(100, 3000) >>
\* The same with a listener whose port is not told (port 0).
IdentityConns == << Conn(0, 3000), Conn(100, 0), Conn(100, 3000) >>
\* The same with a port outside the default ports.
ConfigConns == << Conn(200, 6000), Conn(100, 3000) >>
MergeConns  == << Conn6(200, 5173), Conn(100, 3000) >>
\* The AutoHotkey processes, in the order of the process list.
AhkProcs    == << Conn(100, 0), Conn(200, 0) >>

World == world

Range(s) == { s[i] : i \in 1..Len(s) }

PortNum(v)       == [isArray |-> FALSE, lo |-> v, hi |-> v]
PortRange(lo, hi) == [isArray |-> TRUE, lo |-> lo, hi |-> hi]

DefaultPorts == << PortNum(3000), PortRange(5173, 5199) >>
OtherPorts   == << PortNum(6000) >>

DefaultSettings == [scanIntervalMs |-> 1, ports |-> DefaultPorts, scanAllPorts |-> FALSE]

SettingsChoices ==
  { DefaultSettings,
    [DefaultSettings EXCEPT !.scanIntervalMs = 2],
    [DefaultSettings EXCEPT !.scanAllPorts = TRUE],
    [DefaultSettings EXCEPT !.ports = OtherPorts] }

\* ------------------------------------------------------------ settings.ts
\* Text is a sequence of characters.  The characters of a ports text: digits, the
\* separators, a blank and a letter.
PortChars == { "1", "2", "-", ",", " ", "a" }

RECURSIVE TextsOf(_)
TextsOf(n) ==
  IF n = 0 THEN { << >> }
  ELSE LET shorter == TextsOf(n - 1)
       IN  shorter \cup { Append(t, c) : t \in { u \in shorter : Len(u) = n - 1 }, c \in PortChars }

PortTexts == TextsOf(MaxText)

\* s.split(sep): the pieces between the separators, "" included.
RECURSIVE Split(_, _)
Split(s, sep) ==
  IF \E i \in 1..Len(s) : s[i] = sep
  THEN LET i == CHOOSE k \in 1..Len(s) : s[k] = sep /\ \A j \in 1..(k - 1) : s[j] # sep
       IN  << SubSeq(s, 1, i - 1) >> \o Split(SubSeq(s, i + 1, Len(s)), sep)
  ELSE << s >>

\* parseInt(s, 10) of a text without sign: blanks are skipped, the digits that
\* follow are the number, whatever comes after them is ignored; << >> is NaN,
\* << n >> the number n.
ParseInt(s) ==
  LET RECURSIVE Skip(_)
      Skip(t) == IF t # << >> /\ Head(t) = " " THEN Skip(Tail(t)) ELSE t
      DigitOf(c) == IF c = "1" THEN 1 ELSE 2
      RECURSIVE Digits(_, _, _)
      Digits(t, any, n) ==
        IF t # << >> /\ Head(t) \in { "1", "2" }
        THEN Digits(Tail(t), TRUE, 10 * n + DigitOf(Head(t)))
        ELSE IF any THEN << n >> ELSE << >>
  IN  Digits(Skip(s), FALSE, 0)

\* "return [] as never": an array without elements.
EmptyArray == [isArray |-> TRUE, empty |-> TRUE]

\* parsePorts(input): split(','), trim, filter(Boolean), then per token a range
\* [min, max], a number, or [] when a part is no number; the last filter keeps
\* whatever is not undefined, that is everything.
parsePorts(input) ==
  LET RECURSIVE Trim(_)
      Trim(t) == IF t # << >> /\ Head(t) = " " THEN Trim(Tail(t))
                 ELSE IF t # << >> /\ t[Len(t)] = " " THEN Trim(SubSeq(t, 1, Len(t) - 1))
                 ELSE t
      tokens == SelectSeq([ i \in DOMAIN Split(input, ",") |-> Trim(Split(input, ",")[i]) ],
                          LAMBDA t : t # << >>)
      Entry(token) ==
        IF \E i \in DOMAIN token : token[i] = "-"
        THEN LET a == ParseInt(Split(token, "-")[1])
                 b == ParseInt(Split(token, "-")[2])
             IN  IF a = << >> \/ b = << >> THEN EmptyArray
                 ELSE PortRange(IF a[1] <= b[1] THEN a[1] ELSE b[1],
                                IF a[1] <= b[1] THEN b[1] ELSE a[1])
        ELSE LET n == ParseInt(token)
             IN  IF n = << >> THEN EmptyArray ELSE PortNum(n[1])
  IN  [ i \in DOMAIN tokens |-> Entry(tokens[i]) ]

\* -------------------------------------------------------------- scanner.ts
\* A filter that forgets scanAllPorts, and one whose ranges leave out their end.
inConfiguredPortsListed(port, cfg) ==
  \E i \in 1..Len(cfg.ports) :
    LET p == cfg.ports[i]
    IN  IF p.isArray THEN port >= p.lo /\ port <= p.hi ELSE port = p.lo

inConfiguredPortsHalfOpen(port, cfg) ==
  IF cfg.scanAllPorts THEN TRUE
  ELSE \E i \in 1..Len(cfg.ports) :
         LET p == cfg.ports[i]
         IN  IF p.isArray THEN port >= p.lo /\ port < p.hi ELSE port = p.lo

inConfiguredPorts(port, cfg) ==
  IF cfg.scanAllPorts THEN TRUE
  ELSE \E i \in 1..Len(cfg.ports) :
         LET p == cfg.ports[i]
         IN  IF p.isArray THEN port >= p.lo /\ port <= p.hi ELSE port = p.lo

\* `${pid}:${port}` for a server, String(pid) for a script.
KeyOf(c) == IF self = "Scanner" THEN << c.pid, c.localPort >> ELSE << c.pid >>

NoKey == << >>

UrlOf(port) == << "http://localhost:", port >>

IndexOfKey(its, key) ==
  IF \E i \in 1..Len(its) : its[i].key = key
  THEN CHOOSE i \in 1..Len(its) : its[i].key = key
  ELSE 0

KeysOf(its) == { its[i].key : i \in 1..Len(its) }

RemoveAt(s, i) == [ j \in 1..(Len(s) - 1) |-> IF j < i THEN s[j] ELSE s[j + 1] ]

Ev(type, key, payload) == [type |-> type, key |-> key, payload |-> payload]

NoCwd == ""      \* cwd: null / undefined
NoFramework == ""      \* framework: undefined

\* A record that takes its firstSeen from the start of the program.
NewRecEpoch(key, c, now) ==
  [key |-> key, pid |-> c.pid, port |-> c.localPort, scriptName |-> c.scriptName,
   firstSeen |-> 0, lastSeen |-> now, cpu |-> 0, memory |-> 0,
   cpuHistory |-> << >>, memoryHistory |-> << >>, shifted |-> FALSE,
   cwd |-> NoCwd, framework |-> NoFramework,
   url |-> IF self = "Scanner" THEN UrlOf(c.localPort) ELSE NoKey]

NewRec(key, c, now) ==
  [key |-> key, pid |-> c.pid, port |-> c.localPort, scriptName |-> c.scriptName,
   firstSeen |-> now, lastSeen |-> now, cpu |-> 0, memory |-> 0,
   cpuHistory |-> << >>, memoryHistory |-> << >>,
   shifted |-> FALSE,      \* history: a reading has been shifted out of cpuHistory
   cwd |-> NoCwd, framework |-> NoFramework,
   url |-> IF self = "Scanner" THEN UrlOf(c.localPort) ELSE NoKey]

\* A filter that lets every port through.
InterestedAll(byKey, cfg) == byKey

\* listening.filter(...): what a cycle is interested in.
Interested(byKey, cfg) ==
  IF self = "Scanner"
  THEN SelectSeq(byKey, LAMBDA c : inConfiguredPorts(c.localPort, cfg))
  ELSE byKey

\* A skip that looks at the pid only.
SkipConnPidOnly(c) == self = "Scanner" /\ c.pid = 0

\* "if (!pid || !port) continue" of the server engine.
SkipConn(c) == self = "Scanner" /\ (c.pid = 0 \/ c.localPort = 0)

\* A create / refresh loop that announces every observation, known or not.
RECURSIVE CreateEach(_, _, _, _)
CreateEach(interested, now, st, i) ==
  IF i > Len(interested) THEN st
  ELSE LET c == interested[i]
       IN  IF SkipConn(c) THEN CreateEach(interested, now, st, i + 1)
           ELSE LET key == KeyOf(c)
                    idx == IndexOfKey(st.items, key)
                    st2 == [items  |-> IF idx = 0 THEN Append(st.items, NewRec(key, c, now))
                                       ELSE [st.items EXCEPT ![idx].lastSeen = now],
                            keys   |-> st.keys \cup {key},
                            events |-> Append(st.events,
                                              Ev("new", key, << NewRec(key, c, now) >>))]
                IN  CreateEach(interested, now, st2, i + 1)

\* The create / refresh loop; st = [items, keys, events].
RECURSIVE CreateOrRefresh(_, _, _, _)
CreateOrRefresh(interested, now, st, i) ==
  IF i > Len(interested) THEN st
  ELSE LET c == interested[i]
       IN  IF SkipConn(c) THEN CreateOrRefresh(interested, now, st, i + 1)
           ELSE LET key == KeyOf(c)
                    idx == IndexOfKey(st.items, key)
                    st2 == IF idx = 0
                           THEN [items  |-> Append(st.items, NewRec(key, c, now)),
                                 keys   |-> st.keys \cup {key},
                                 events |-> Append(st.events,
                                                  Ev("new", key, << NewRec(key, c, now) >>))]
                           ELSE [items  |-> [st.items EXCEPT ![idx].lastSeen = now,
                                                             ![idx].scriptName =
                                                                IF self = "Scanner" THEN @
                                                                ELSE c.scriptName],
                                 keys   |-> st.keys \cup {key},
                                 events |-> st.events]
                IN  CreateOrRefresh(interested, now, st2, i + 1)

\* Stale tests that are off by one cycle, or look at the wrong keys.
IsStaleEarly(rec, keys, now, interval) ==
  rec.key \notin keys /\ now - rec.lastSeen >= interval * GraceFactor

IsStaleLate(rec, keys, now, interval) ==
  rec.key \notin keys /\ now - rec.lastSeen > interval * (GraceFactor + 1)

IsStalePresent(rec, keys, now, interval) ==
  rec.key \in keys /\ now - rec.lastSeen > interval * GraceFactor

\* The test of the "remove stale" loop.
IsStale(rec, keys, now, interval) ==
  rec.key \notin keys /\ now - rec.lastSeen > interval * GraceFactor

\* The "remove stale" loop; st = [items, events].
RECURSIVE RemoveStale(_, _, _, _, _)
RemoveStale(its, keys, now, interval, st) ==
  IF its = << >> THEN st
  ELSE LET rec == Head(its)
           st2 == IF IsStale(rec, keys, now, interval)
                  THEN [items  |-> st.items,
                        events |-> Append(st.events, Ev("stopped", rec.key, << rec >>))]
                  ELSE [items  |-> Append(st.items, rec), events |-> st.events]
       IN  RemoveStale(Tail(its), keys, now, interval, st2)

\* Lines 301-340 (scanner) / 100-131 (ahk-scanner): filter, create or refresh,
\* remove stale.  The settings are read here, when the enumeration has returned.
Reconcile(its, byKey, now, cfg) ==
  LET a == CreateOrRefresh(Interested(byKey, cfg), now,
                           [items |-> its, keys |-> {}, events |-> << >>], 1)
      b == RemoveStale(a.items, a.keys, now, cfg.scanIntervalMs,
                       [items |-> << >>, events |-> a.events])
  IN  [items |-> b.items, keys |-> a.keys, events |-> b.events]

\* Array.prototype.sort is stable: equal keys keep their insertion order.
SortKey(rec) == IF self = "Scanner" THEN rec.port ELSE rec.scriptName

RECURSIVE InsertSorted(_, _)
InsertSorted(sorted, rec) ==
  IF sorted = << >> THEN << rec >>
  ELSE IF SortKey(Head(sorted)) <= SortKey(rec)
       THEN << Head(sorted) >> \o InsertSorted(Tail(sorted), rec)
       ELSE << rec >> \o sorted

RECURSIVE SortItems(_)
SortItems(its) ==
  IF its = << >> THEN << >>
  ELSE InsertSorted(SortItems(SubSeq(its, 1, Len(its) - 1)), its[Len(its)])

\* The payload in Map order.
PayloadUnsorted(its) == its

\* A payload of the records seen at this very time only.
PayloadFresh(its) == SelectSeq(SortItems(its), LAMBDA rec : rec.lastSeen = clock)

\* Array.from(this.items.values()).sort(...)
Payload(its) == SortItems(its)

\* --------------------------------------------------- one scan() invocation
\* What a source of getListening() came back with: history.
NoSource == [ran |-> FALSE, ok |-> FALSE, list |-> << >>]
Listed(ok, list) == [ran |-> TRUE, ok |-> ok, list |-> IF ok THEN list ELSE << >>]

\* cfg0 is history: the settings as they were when scan() was called.
NewCycle(cfg) ==
  [now |-> clock, pc |-> "src1", cfg0 |-> cfg, byKey |-> << >>,
   byPid |-> {}, visited |-> {}, cur |-> NoKey, curLive |-> FALSE,
   src1 |-> NoSource, src2 |-> NoSource]

\* The Map iterator of the enrich loop: the first entry not yet visited.
NextRec(its, visited) ==
  IF \E i \in 1..Len(its) : its[i].key \notin visited
  THEN CHOOSE i \in 1..Len(its) :
         /\ its[i].key \notin visited
         /\ \A j \in 1..(i - 1) : its[j].key \in visited
  ELSE 0

\* ---- the working directory of a process (getProcessCwd and its cache)
CWD_CACHE_TTL == 30000
UnitMs == 10000      \* Date.now() is clock * UnitMs: the smallest scan interval, 10 s

NoEntry == [present |-> FALSE, cwd |-> NoCwd, time |-> 0]     \* cwdCache.get: undefined
NoLog   == [kind |-> "none", key |-> NoKey, pid |-> 0, cwd |-> NoCwd, regex |-> FALSE]

\* ----------------------------------------------------- framework classification
\* Text is a sequence of characters; << >> is "" and also undefined, which
\* ?? "" turns into "".
\* A process without command line and name.
NoProc == [command |-> << >>, name |-> << >>]

\* s.includes(p)
Includes(s, p) ==
  \E i \in 0..(Len(s) - Len(p)) : SubSeq(s, i + 1, i + Len(p)) = p

\* s.toLowerCase()
ToLowerCase(s) ==
  LET lower ==
        "A" :> "a" @@ "B" :> "b" @@ "C" :> "c" @@ "D" :> "d" @@ "E" :> "e" @@ "F" :> "f" @@
        "G" :> "g" @@ "H" :> "h" @@ "I" :> "i" @@ "J" :> "j" @@ "K" :> "k" @@ "L" :> "l" @@
        "M" :> "m" @@ "N" :> "n" @@ "O" :> "o" @@ "P" :> "p" @@ "Q" :> "q" @@ "R" :> "r" @@
        "S" :> "s" @@ "T" :> "t" @@ "U" :> "u" @@ "V" :> "v" @@ "W" :> "w" @@ "X" :> "x" @@
        "Y" :> "y" @@ "Z" :> "z"
  IN  [i \in DOMAIN s |-> IF s[i] \in DOMAIN lower THEN lower[s[i]] ELSE s[i]]

\* The tests of guessFramework in their order: the label and the substrings, any
\* of which gives it.
FrameworkPatterns == <<
  [label |-> "Vite",
   any |-> { << "v", "i", "t", "e" >> }],
  [label |-> "Next.js",
   any |-> { << "n", "e", "x", "t" >> }],
  [label |-> "Nuxt",
   any |-> { << "n", "u", "x", "t" >> }],
  [label |-> "Remix",
   any |-> { << "r", "e", "m", "i", "x" >> }],
  [label |-> "Astro",
   any |-> { << "a", "s", "t", "r", "o" >> }],
  [label |-> "Angular",
   any |-> { << "a", "n", "g", "u", "l", "a", "r" >>,
            << "n", "g", " " >> }],
  [label |-> "CRA",
   any |-> { << "r", "e", "a", "c", "t", "-", "s", "c", "r", "i", "p", "t", "s" >> }],
  [label |-> "Webpack Dev Server",
   any |-> { << "w", "e", "b", "p", "a", "c", "k", "-", "d", "e", "v", "-", "s", "e", "r", "v", "e", "r" >> }],
  [label |-> "Uvicorn",
   any |-> { << "u", "v", "i", "c", "o", "r", "n" >> }],
  [label |-> "Gunicorn",
   any |-> { << "g", "u", "n", "i", "c", "o", "r", "n" >> }],
  [label |-> "Django",
   any |-> { << "d", "j", "a", "n", "g", "o" >> }],
  [label |-> "Rails",
   any |-> { << "r", "a", "i", "l", "s" >> }],
  [label |-> ".NET",
   any |-> { << "d", "o", "t", "n", "e", "t" >> }],
  [label |-> "PHP",
   any |-> { << "p", "h", "p" >> }],
  [label |-> "Deno",
   any |-> { << "d", "e", "n", "o" >> }],
  [label |-> "Go",
   any |-> { << "g", "o", " " >>,
            << "g", "o", ".", "e", "x", "e" >> }],
  [label |-> "AutoHotkey",
   any |-> { << "a", "u", "t", "o", "h", "o", "t", "k", "e", "y" >> }] >>

\* A classification in which the last test that matches gives the label.
guessFrameworkLast(cmd, name) ==
  LET s    == ToLowerCase(cmd \o << " " >> \o name)
      hits == { i \in DOMAIN FrameworkPatterns :
                  \E p \in FrameworkPatterns[i].any : Includes(s, p) }
  IN  IF hits = {} THEN NoFramework
      ELSE FrameworkPatterns[CHOOSE i \in hits : \A j \in hits : j <= i].label

\* guessFramework(cmd, name): `${cmd ?? ""} ${name ?? ""}`.toLowerCase(), then the
\* tests one after the other, the first that matches returning its label.
guessFramework(cmd, name) ==
  LET s == ToLowerCase(cmd \o << " " >> \o name)
      RECURSIVE From(_)
      From(i) ==
        IF i > Len(FrameworkPatterns) THEN NoFramework
        ELSE IF \E p \in FrameworkPatterns[i].any : Includes(s, p)
             THEN FrameworkPatterns[i].label
             ELSE From(i + 1)
  IN  From(1)

\* The command lines and process names the classification is followed for.
Commands == {
  << >>,
  << "n", "e", "x", "t", " ", "d", "e", "v", " ", "-", "-", "t", "u", "r", "b", "o" >>,
  << "v", "i", "t", "e" >>,
  << "V", "i", "t", "e" >>,
  << "n", "o", "d", "e", " ", "s", "e", "r", "v", "e", "r", ".", "j", "s" >>,
  << "n", "e", "x", "t", " ", "b", "u", "i", "l", "d", " ", "&", "&", " ", "v", "i", "t", "e" >>,
  << "n", "g", " ", "s", "e", "r", "v", "e" >>,
  << "p", "i", "n", "g" >>,
  << "a", "n", "g", "u", "l", "a", "r", "-", "c", "l", "i" >>,
  << "d", "j", "a", "n", "g", "o", "-", "a", "d", "m", "i", "n" >>,
  << "c", "a", "r", "g", "o" >>,
  << "g", "o", ".", "e", "x", "e", " ", "r", "u", "n" >>,
  << "p", "y", "t", "h", "o", "n", " ", "-", "m", " ", "u", "v", "i", "c", "o", "r", "n", " ", "a", "p", "p" >>,
  << "g", "u", "n", "i", "c", "o", "r", "n", " ", "a", "p", "p" >>,
  << "D", "O", "T", "N", "E", "T", " ", "r", "u", "n" >>,
  << "p", "h", "p", " ", "-", "S" >>,
  << "d", "e", "n", "o", " ", "r", "u", "n" >>,
  << "A", "u", "t", "o", "H", "o", "t", "k", "e", "y", ".", "e", "x", "e" >>,
  << "r", "e", "a", "c", "t", "-", "s", "c", "r", "i", "p", "t", "s", " ", "s", "t", "a", "r", "t" >>,
  << "w", "e", "b", "p", "a", "c", "k", "-", "d", "e", "v", "-", "s", "e", "r", "v", "e", "r" >>,
  << "n", "u", "x", "t", " ", "d", "e", "v" >>,
  << "r", "e", "m", "i", "x", " ", "d", "e", "v" >>,
  << "a", "s", "t", "r", "o", " ", "d", "e", "v" >>,
  << "r", "a", "i", "l", "s", " ", "s" >> }

Names == {
  << >>,
  << "n", "o", "d", "e" >>,
  << "N", "E", "X", "T" >>,
  << "g", "o" >>,
  << "n", "g" >> }

\* What readlink /proc/<pid>/cwd can answer: a directory, or nothing.
CwdAnswers == { "/app", NoCwd }

\* extractProjectPath(p.command): the command of 200 names a project, that of 100
\* does not.
ExtractProjectPath(pid) == IF pid = 200 THEN "/cmd" ELSE NoCwd

\* An entry that is still fresh when its age equals the time-to-live.
CacheFreshInclusive(pid) ==
  /\ cwdCache[pid].present
  /\ clock * UnitMs - cwdCache[pid].time * UnitMs <= CWD_CACHE_TTL

\* cached && Date.now() - cached.time < CWD_CACHE_TTL
CacheFresh(pid) ==
  /\ cwdCache[pid].present
  /\ clock * UnitMs - cwdCache[pid].time * UnitMs < CWD_CACHE_TTL

\* "if (cwd) rec.cwd = cwd; else rec.cwd = extractProjectPath(p.command) || undefined"
CwdOf(pid, cwd) == IF cwd # NoCwd THEN cwd ELSE ExtractProjectPath(pid)

\* The enrich loop up to its next await (the cwd resolution of a cache miss, or
\* pidusage), or to its end.
RECURSIVE RunLoop(_, _)
RunLoop(cyc, its) ==
  LET i == NextRec(its, cyc.visited)
  IN  IF i = 0 THEN [cyc |-> cyc, items |-> its, log |-> NoLog, done |-> TRUE]
      ELSE LET rec  == its[i]
               seen == [cyc EXCEPT !.visited = @ \cup {rec.key}]
               at   == [seen EXCEPT !.cur = rec.key, !.curLive = TRUE]
               \* rec.framework = guessFramework(p.command, p.name)
               fw   == IF self = "Scanner"
                       THEN [its EXCEPT ![i].framework =
                               guessFramework(procText.command, procText.name)]
                       ELSE its
           IN  IF self = "Scanner" /\ rec.pid \notin cyc.byPid
               THEN RunLoop(seen, its)            \* byPid.get(rec.pid) is undefined
               ELSE IF self = "Scanner" /\ caching /\ rec.cwd = NoCwd
               THEN IF CacheFresh(rec.pid)
                    THEN LET got == cwdCache[rec.pid].cwd
                         IN  [cyc   |-> [at EXCEPT !.pc = "usage"],
                              items |-> [fw EXCEPT ![i].cwd = CwdOf(rec.pid, got)],
                              log   |-> [kind |-> "hit", key |-> rec.key, pid |-> rec.pid,
                                         cwd |-> got, regex |-> got = NoCwd],
                              done  |-> FALSE]
                    ELSE [cyc   |-> [at EXCEPT !.pc = "cwd"],
                          items |-> fw,
                          log   |-> [kind |-> "miss", key |-> rec.key, pid |-> rec.pid,
                                     cwd |-> NoCwd, regex |-> FALSE],
                          done  |-> FALSE]
               ELSE [cyc |-> [at EXCEPT !.pc = "usage"], items |-> fw, log |-> NoLog,
                     done |-> FALSE]

NoRecon ==
  [valid |-> FALSE, now |-> 0, keys |-> {}, interval |-> 0, byKey |-> << >>,
   cfgStart |-> DefaultSettings, src1 |-> NoSource, src2 |-> NoSource]

\* An end of the try block whose update is followed by an error.
FinishAndFail(cyc, its, events) ==
  [cyc |-> cyc, alive |-> FALSE, items |-> its, recon |-> NoRecon,
   events |-> events \o << Ev("update", NoKey, SortItems(its)), Ev("error", NoKey, << >>) >>,
   ended |-> "try"]

\* The end of the try block: sort, emit update.
Finish(cyc, its, events) ==
  [cyc |-> cyc, alive |-> FALSE, items |-> its, recon |-> NoRecon,
   events |-> Append(events, Ev("update", NoKey, Payload(its))), ended |-> "try"]

\* A catch block that swallows the failure.
CaughtSilent(cyc, its, events) ==
  [cyc |-> cyc, alive |-> FALSE, items |-> its, recon |-> NoRecon,
   events |-> events, ended |-> "catch"]

\* The catch block: emit error.
Caught(cyc, its, events) ==
  [cyc |-> cyc, alive |-> FALSE, items |-> its, recon |-> NoRecon,
   events |-> Append(events, Ev("error", NoKey, << >>)), ended |-> "catch"]

Loop(cyc, its, events) ==
  LET r == RunLoop(cyc, its)
  IN  IF r.done THEN Finish(r.cyc, r.items, events)
      ELSE [cyc |-> r.cyc, alive |-> TRUE, items |-> r.items, recon |-> NoRecon,
            events |-> events, ended |-> "none"]

\* Settings kept from the call of scan().
ConfigAtStart(cyc, cfg) == cyc.cfg0

\* settings.get(...) in the filter and in the stale test: the store as it is (cfg)
\* when the enumeration has returned.
ConfigRead(cyc, cfg) == cfg

\* What scan() does when getListening() / getAHKProcesses() has returned.
AfterEnum(cyc, its, cfg) ==
  LET r  == Reconcile(its, cyc.byKey, cyc.now, ConfigRead(cyc, cfg))
      c2 == [cyc EXCEPT !.byKey = << >>, !.src1 = NoSource, !.src2 = NoSource]
      rc == [valid |-> TRUE, now |-> cyc.now, keys |-> r.keys,
             interval |-> ConfigRead(cyc, cfg).scanIntervalMs, byKey |-> cyc.byKey,
             cfgStart |-> cyc.cfg0, src1 |-> cyc.src1, src2 |-> cyc.src2]
  IN  IF self = "Scanner"
      THEN [cyc |-> [c2 EXCEPT !.pc = "procs"], alive |-> TRUE, items |-> r.items,
            recon |-> rc, events |-> r.events, ended |-> "none"]  \* await si.processes()
      ELSE [Loop(c2, r.items, r.events) EXCEPT !.recon = rc]

\* A scan() that returns at once while another cycle is in flight.
BeginWhenIdle(its, cfg) ==
  IF self = "AHKScanner" /\ platform # "win32"
  THEN AfterEnum(NewCycle(cfg), its, cfg)
  ELSE [cyc |-> NewCycle(cfg), alive |-> cycles = << >>, items |-> its, recon |-> NoRecon,
        events |-> << >>, ended |-> "none"]

\* scan() up to its first await.
Begin(its, cfg) ==
  IF self = "AHKScanner" /\ platform # "win32"
  THEN AfterEnum(NewCycle(cfg), its, cfg)   \* getAHKProcesses returns []
  ELSE [cyc |-> NewCycle(cfg), alive |-> TRUE, items |-> its, recon |-> NoRecon,
        events |-> << >>, ended |-> "none"]

Stopped(events) == { events[i].key : i \in { j \in 1..Len(events) : events[j].type = "stopped" } }
Created(events) == { events[i].key : i \in { j \in 1..Len(events) : events[j].type = "new" } }

\* A record deleted from the Map is still referenced by a cycle awaiting its
\* pidusage; the iterator of a cycle visits a key created again.
Detach(c, gone) ==
  [c EXCEPT !.visited = @ \ gone, !.curLive = @ /\ c.cur \notin gone]

\* HealthChecker.setServers
SetServersList(list) == list

PruneResults(res, list) ==
  SelectSeq(res, LAMBDA h : \E i \in 1..Len(list) : list[i].key = h.key)

ServerList(payload) ==
  [ i \in 1..Len(payload) |-> [key |-> payload[i].key, url |-> payload[i].url] ]

\* The state after a piece r of the cycle at place i of cs has run.
Commit(cs, i, r) ==
  LET gone == Stopped(r.events)
      ds   == [ j \in 1..Len(cs) |-> IF j = i THEN r.cyc ELSE Detach(cs[j], gone) ]
      upd  == { j \in 1..Len(r.events) : r.events[j].type = "update" }
  IN  /\ cycles' = IF r.alive THEN ds ELSE RemoveAt(ds, i)
      /\ items' = r.items
      /\ emitted' = r.events
      /\ ended' = r.ended
      /\ recon' = r.recon
      /\ lastEv' = [ k \in DOMAIN lastEv |->
                       IF k \in gone THEN "stopped"
                       ELSE IF k \in Created(r.events)
                            THEN IF lastEv[k] = "none" THEN "new" ELSE "again"
                            ELSE lastEv[k] ]
      /\ IF self = "Scanner" /\ upd # {}
         THEN LET list == ServerList(r.events[CHOOSE j \in upd : TRUE].payload)
              IN  /\ servers' = SetServersList(list)
                  /\ results' = PruneResults(results, list)
         ELSE UNCHANGED << servers, results >>
      /\ UNCHANGED << intervalMs, checks >>

\* ------------------------------------------------------------- the timers
\* A stop() that forgets the handle and leaves the timer with the event loop.
KeepLive(lt, tm) == lt

\* clearInterval(this.timer) of stop()
StopLive(lt, tm) == IF tm # 0 THEN RemoveAt(lt, tm) ELSE lt

\* setInterval(cb, period), called at clock
NewTimer(period) == [period |-> period, nextFire |-> clock + period]

Quiet == emitted' = << >> /\ ended' = "none" /\ recon' = NoRecon /\ lastEv' = lastEv

EngineMode == self \in {"Scanner", "AHKScanner"}

\* ------------------------------------------------- Scanner / AHKScanner API
\* A start() without its stop().
StartLeaky(cfg) ==
  /\ Len(cycles) < MaxCycles
  /\ LET r == Begin(items, cfg)
     IN  /\ Commit(Append(cycles, r.cyc), Len(cycles) + 1, r)
         /\ liveTimers' = Append(liveTimers, NewTimer(cfg.scanIntervalMs))
         /\ timer' = Len(liveTimers) + 1
  /\ lastCall' = "start"

\* start(), reading the settings cfg
StartWith(cfg) ==
  /\ Len(cycles) < MaxCycles
  /\ LET interval == cfg.scanIntervalMs
         lt       == StopLive(liveTimers, timer)
         r        == Begin(items, cfg)
     IN  /\ Commit(Append(cycles, r.cyc), Len(cycles) + 1, r)
         /\ liveTimers' = Append(lt, NewTimer(interval))
         /\ timer' = Len(lt) + 1
  /\ lastCall' = "start"

Start ==
  /\ EngineMode
  /\ op' = "Start"
  /\ StartWith(settings)
  /\ UNCHANGED << envVars, updaterVars, cwdCache, cwdLog, changes, clock, listening, settings >>

Stop ==
  /\ EngineMode
  /\ op' = "Stop"
  /\ liveTimers' = StopLive(liveTimers, timer)
  /\ timer' = 0
  /\ lastCall' = "stop"
  /\ Quiet
  /\ UNCHANGED << envVars, updaterVars, cwdCache, cwdLog, changes, clock, listening, settings, items, cycles, healthVars >>

\* The interval timer's callback: () => this.scan()
TimerFire(i) ==
  /\ EngineMode
  /\ op' = "TimerFire"
  /\ i \in 1..Len(liveTimers)
  /\ clock = liveTimers[i].nextFire
  /\ Len(cycles) < MaxCycles
  /\ LET r == Begin(items, settings)
     IN  Commit(Append(cycles, r.cyc), Len(cycles) + 1, r)
  /\ liveTimers' = [liveTimers EXCEPT ![i].nextFire = clock + liveTimers[i].period]
  /\ UNCHANGED << envVars, updaterVars, cwdCache, cwdLog, changes, clock, listening, settings, timer, lastCall >>

\* ipcMain.handle("scanner:refresh", () => scanner.scan())
Refresh ==
  /\ self = "Scanner"
  /\ op' = "Refresh"
  /\ Len(cycles) < MaxCycles
  /\ LET r == Begin(items, settings)
     IN  Commit(Append(cycles, r.cyc), Len(cycles) + 1, r)
  /\ UNCHANGED << envVars, updaterVars, cwdCache, cwdLog, changes, clock, listening, settings, timer, liveTimers, lastCall >>

\* ipcMain.handle("settings:update") for an update without startAtLogin: store the
\* fields, then scanner.start().  The script engine is not restarted.
SettingsUpdate(s) ==
  /\ EngineMode
  /\ op' = "SettingsUpdate"
  /\ s \in SettingsChoices
  /\ s # settings
  /\ changes < MaxChanges
  /\ settings' = s
  /\ IF self = "Scanner"
     THEN StartWith(s)
     ELSE /\ Quiet
          /\ UNCHANGED << timer, liveTimers, lastCall, items, cycles, healthVars >>
  /\ changes' = changes + 1
  /\ UNCHANGED << envVars, updaterVars, cwdCache, cwdLog, clock, listening >>

\* ipcMain.handle("settings:update") for an update of the ports text alone:
\* settings.set("ports", parsePorts(portsText)), then scanner.start().
PortsUpdate(text) ==
  /\ self = "Scanner"
  /\ op' = "PortsUpdate"
  /\ text \in PortTexts
  /\ changes < MaxChanges
  /\ settings' = [settings EXCEPT !.ports = parsePorts(text)]
  /\ StartWith(settings')
  /\ changes' = changes + 1
  /\ UNCHANGED << envVars, updaterVars, cwdCache, cwdLog, clock, listening >>

\* ------------------------------------------------------------- updater.ts
UpdaterEvents ==
  { "checking-for-update", "update-available", "update-not-available",
    "download-progress", "update-downloaded", "error" }

UpdaterChannels ==
  { "updater:check", "updater:download", "updater:install", "updater:get-status",
    "updater:dismiss" }

NOT_AVAILABLE_RESET_S == 3
ERROR_RESET_S == 5
STARTUP_CHECK_S == 5

\* The state each handler passes to setStatus.
StatusOf(ev) ==
  CASE ev = "checking-for-update"   -> "checking"
    [] ev = "update-available"      -> "available"
    [] ev = "update-not-available"  -> "not-available"
    [] ev = "download-progress"     -> "downloading"
    [] ev = "update-downloaded"     -> "downloaded"
    [] ev = "error"                 -> "error"

\* The delay of the reset to idle a handler schedules, 0 if it schedules none.
ResetDelay(ev) ==
  CASE ev = "update-not-available" -> NOT_AVAILABLE_RESET_S
    [] ev = "error"                -> ERROR_RESET_S
    [] OTHER                       -> 0

\* setTimeout(cb, delay) called at clock; after is history: the status set by the
\* handler that scheduled a reset.
Timeout(kind, delay, after) == [kind |-> kind, due |-> clock + delay, after |-> after]

\* autoUpdater.emit(ev): every registered instance of the handler runs; each
\* sets the status and, for update-not-available and error, schedules a reset.
Emit(ev) ==
  IF listeners[ev] = 0
  THEN UNCHANGED << currentStatus, timeouts >>
  ELSE /\ currentStatus' = StatusOf(ev)
       /\ timeouts' = IF ResetDelay(ev) = 0 THEN timeouts
                      ELSE timeouts \o [ i \in 1..listeners[ev] |->
                                           Timeout("reset", ResetDelay(ev), StatusOf(ev)) ]

\* A removeListener that leaves the listener registered.
RemoveListenerKept(n) == n

\* autoUpdater.removeListener(ev, handler): one instance less, if there is one.
RemoveListener(n) == IF n > 0 THEN n - 1 ELSE 0

\* ipcMain.removeHandler(channel): the channel has no handler afterwards.
RemoveHandler(n) == 0

\* initUpdater(win, isPackaged)
InitUpdater ==
  /\ self = "Updater"
  /\ op' = "InitUpdater"
  /\ inits < MaxInits
  /\ inits' = inits + 1
     \* registerIpcHandlers: removeHandler, then handle, for every channel
  /\ ipcHandlers' = [ ch \in UpdaterChannels |-> RemoveHandler(ipcHandlers[ch]) + 1 ]
  /\ IF ~isPackaged \/ currentStatus \in { "checking", "downloading", "downloaded" }
     THEN UNCHANGED << listeners, timeouts >>
     ELSE /\ Len(timeouts) < MaxTimeouts
          /\ listeners' = [ ev \in UpdaterEvents |-> RemoveListener(listeners[ev]) + 1 ]
          /\ timeouts' = Append(timeouts, Timeout("check", STARTUP_CHECK_S, "idle"))
  /\ UNCHANGED << isPackaged, currentStatus, flight, clock >>

\* autoUpdater.checkForUpdates(): emits checking-for-update and goes to the
\* network, unless a check or a download is already in flight.
CheckForUpdates ==
  IF flight = "none"
  THEN flight' = "check" /\ Emit("checking-for-update")
  ELSE UNCHANGED << flight, currentStatus, timeouts >>

\* A timeout that is due: the reset to idle, or the check at startup.
TimeoutFire(i) ==
  /\ self = "Updater"
  /\ i \in DOMAIN timeouts
  /\ timeouts[i].due <= clock
  /\ IF timeouts[i].kind = "reset"
     THEN /\ op' = IF timeouts[i].after = "not-available"
                   THEN "ResetNotAvailable" ELSE "ResetError"
          /\ currentStatus' = "idle"
          /\ timeouts' = RemoveAt(timeouts, i)
          /\ UNCHANGED flight
     ELSE /\ op' = "StartupCheck"
          /\ IF flight = "none"
             THEN /\ flight' = "check"
                  /\ currentStatus' = IF listeners["checking-for-update"] = 0
                                      THEN currentStatus ELSE "checking"
             ELSE UNCHANGED << flight, currentStatus >>
          /\ timeouts' = RemoveAt(timeouts, i)
  /\ UNCHANGED << isPackaged, listeners, ipcHandlers, inits, clock >>

\* ipcMain.handle("updater:check")
IpcCheck ==
  /\ self = "Updater"
  /\ op' = "IpcCheck"
  /\ ipcHandlers["updater:check"] > 0
  /\ IF ~isPackaged
     THEN /\ currentStatus' = "not-available"
          /\ UNCHANGED << flight, timeouts >>
     ELSE CheckForUpdates
  /\ UNCHANGED << isPackaged, listeners, ipcHandlers, inits, clock >>

\* The check in flight ends: update-available, update-not-available or error.
CheckResult(ev) ==
  /\ self = "Updater"
  /\ op' = "CheckResult"
  /\ flight = "check"
  /\ ev \in { "update-available", "update-not-available", "error" }
  /\ ResetDelay(ev) # 0 => Len(timeouts) + listeners[ev] <= MaxTimeouts
  /\ flight' = "none"
  /\ Emit(ev)
  /\ UNCHANGED << isPackaged, listeners, ipcHandlers, inits, clock >>

\* ipcMain.handle("updater:download") in a packaged app: downloadUpdate()
IpcDownload ==
  /\ self = "Updater"
  /\ op' = "IpcDownload"
  /\ ipcHandlers["updater:download"] > 0
  /\ isPackaged
  /\ flight = "none"
  /\ flight' = "download"
  /\ UNCHANGED << isPackaged, currentStatus, timeouts, listeners, ipcHandlers, inits, clock >>

\* The download in flight goes on (download-progress) or ends (update-downloaded,
\* error).
DownloadEvent(ev) ==
  /\ self = "Updater"
  /\ op' = "DownloadEvent"
  /\ flight = "download"
  /\ ev \in { "download-progress", "update-downloaded", "error" }
  /\ ResetDelay(ev) # 0 => Len(timeouts) + listeners[ev] <= MaxTimeouts
  /\ flight' = IF ev = "download-progress" THEN "download" ELSE "none"
  /\ Emit(ev)
  /\ UNCHANGED << isPackaged, listeners, ipcHandlers, inits, clock >>

\* ipcMain.handle("updater:install") in a packaged app, quitAndInstall throwing
IpcInstallFailed ==
  /\ self = "Updater"
  /\ op' = "IpcInstallFailed"
  /\ ipcHandlers["updater:install"] > 0
  /\ isPackaged
  /\ currentStatus' = "error"
  /\ UNCHANGED << isPackaged, timeouts, listeners, ipcHandlers, flight, inits, clock >>

\* ipcMain.handle("updater:dismiss")
IpcDismiss ==
  /\ self = "Updater"
  /\ op' = "IpcDismiss"
  /\ ipcHandlers["updater:dismiss"] > 0
  /\ currentStatus' = "idle"
  /\ UNCHANGED << isPackaged, timeouts, listeners, ipcHandlers, flight, inits, clock >>

\* A second passes in which no timeout is due.
UpdaterElapse ==
  /\ self = "Updater"
  /\ op' = "UpdaterElapse"
  /\ clock < horizon
  /\ \A i \in DOMAIN timeouts : timeouts[i].due > clock
  /\ clock' = clock + 1
  /\ UNCHANGED updaterVars

\* What an updater step leaves alone.
EnginesIdle ==
  /\ Quiet
  /\ UNCHANGED << envVars, cwdCache, cwdLog, changes, listening, settings, timer, liveTimers,
                  lastCall, items, cycles, healthVars >>

\* ------------------------------------------------------- the enumeration
NeedsWmic(pid) == pid = 200      \* the command line does not name the script
AhkName(pid)   == IF pid = 100 THEN 2 ELSE 1     \* collation rank of the basename

\* What a source lists when it answers now.
Snapshot ==
  LET now == SelectSeq(World, LAMBDA c : c \in listening)
  IN  IF self = "Scanner" THEN now
      ELSE [ i \in 1..Len(now) |->
               [now[i] EXCEPT !.scriptName =
                  IF NeedsWmic(now[i].pid) THEN 0 ELSE AhkName(now[i].pid)] ]

\* What netstat -ano lists when it answers now: every tuple labelled "tcp".
Netstat == [ i \in 1..Len(Snapshot) |-> [Snapshot[i] EXCEPT !.protocol = "tcp"] ]

\* A merge that sets every netstat tuple, present or not.
RECURSIVE MergeSet(_, _)
MergeSet(byKey, more) ==
  IF more = << >> THEN byKey
  ELSE LET c == Head(more)
       IN  IF \E i \in 1..Len(byKey) : KeyOf(byKey[i]) = KeyOf(c)
           THEN MergeSet([ i \in 1..Len(byKey) |->
                            IF KeyOf(byKey[i]) = KeyOf(c) THEN c ELSE byKey[i] ],
                         Tail(more))
           ELSE MergeSet(Append(byKey, c), Tail(more))

\* A catch that throws the map away.
IgnoredCleared(byKey) == << >>

\* "catch { // ignore }": the map as the failed source left it.
Ignored(byKey) == byKey

\* "if (!byKey.has(key)) byKey.set(key, ...)" over the netstat lines
RECURSIVE MergeAbsent(_, _)
MergeAbsent(byKey, more) ==
  IF more = << >> THEN byKey
  ELSE LET c == Head(more)
       IN  IF \E i \in 1..Len(byKey) : KeyOf(byKey[i]) = KeyOf(c)
           THEN MergeAbsent(byKey, Tail(more))
           ELSE MergeAbsent(Append(byKey, c), Tail(more))

\* getScriptPathViaWMIC for the processes still without a script path
WmicFill(byKey, ok) ==
  [ i \in 1..Len(byKey) |->
      IF ok /\ byKey[i].scriptName = 0
      THEN [byKey[i] EXCEPT !.scriptName = AhkName(byKey[i].pid)]
      ELSE byKey[i] ]

\* si.networkConnections() (scanner) / si.processes() (ahk-scanner) settles
Source1(i, ok) ==
  /\ EngineMode
  /\ op' = "Source1"
  /\ i \in 1..Len(cycles)
  /\ cycles[i].pc = "src1"
  /\ LET got  == IF ok THEN Snapshot ELSE Ignored(<< >>)
         c    == [cycles[i] EXCEPT !.byKey = got,
                    !.src1 = IF self = "Scanner" THEN Listed(ok, Snapshot) ELSE NoSource]
         more == IF self = "Scanner" THEN platform = "win32"
                 ELSE \E j \in 1..Len(got) : got[j].scriptName = 0
         r    == IF more
                 THEN [cyc |-> [c EXCEPT !.pc = "src2"], alive |-> TRUE, items |-> items,
                       recon |-> NoRecon, events |-> << >>, ended |-> "none"]
                 ELSE AfterEnum(c, items, settings)
     IN  Commit(cycles, i, r)
  /\ UNCHANGED << envVars, updaterVars, cwdCache, cwdLog, changes, clock, listening, settings, timer, liveTimers, lastCall >>

\* netstat -ano (scanner, win32) / the WMIC lookups (ahk-scanner) settle
Source2(i, ok) ==
  /\ EngineMode
  /\ op' = "Source2"
  /\ i \in 1..Len(cycles)
  /\ cycles[i].pc = "src2"
  /\ LET got == IF self = "Scanner"
                THEN IF ok THEN MergeAbsent(cycles[i].byKey, Netstat)
                     ELSE Ignored(cycles[i].byKey)
                ELSE WmicFill(cycles[i].byKey, ok)
         c   == [cycles[i] EXCEPT !.byKey = got,
                   !.src2 = IF self = "Scanner" THEN Listed(ok, Netstat) ELSE NoSource]
     IN  Commit(cycles, i, AfterEnum(c, items, settings))
  /\ UNCHANGED << envVars, updaterVars, cwdCache, cwdLog, changes, clock, listening, settings, timer, liveTimers, lastCall >>

\* ------------------------------------------------------------ the enrichment
\* await si.processes() of scan() settles
Procs(i, ok) ==
  /\ self = "Scanner"
  /\ op' = "Procs"
  /\ i \in 1..Len(cycles)
  /\ cycles[i].pc = "procs"
  /\ LET c == [cycles[i] EXCEPT !.byPid = { x.pid : x \in listening }]
         r == IF ok THEN Loop(c, items, << >>) ELSE Caught(cycles[i], items, << >>)
     IN  /\ Commit(cycles, i, r)
         /\ cwdLog' = IF ok THEN RunLoop(c, items).log ELSE NoLog
  /\ UNCHANGED << envVars, updaterVars, cwdCache, changes, clock, listening, settings, timer, liveTimers, lastCall >>

Usages  == { 1 }
Samples == { 1, 2 }

HISTORY_LEN == 6

\* A history that keeps every reading.
PushAll(h, u) == Append(h, u)

\* history.push(reading); if (history.length > 6) history.shift()
Push(h, u) ==
  LET pushed == Append(h, u)
  IN  IF Len(pushed) > HISTORY_LEN THEN Tail(pushed) ELSE pushed

\* A reading that is pushed to the cpu history only.
SampledCpuOnly(its, key, u) ==
  LET idx  == IndexOfKey(its, key)
      keep == self = "Scanner" /\ histories
  IN  [its EXCEPT ![idx].cpu = u, ![idx].memory = u,
                  ![idx].cpuHistory = IF keep THEN Push(@, u) ELSE @]

\* rec.cpu = usage.cpu; rec.memory = usage.memory; in scanner.ts the two pushes
Sampled(its, key, u) ==
  LET idx  == IndexOfKey(its, key)
      keep == self = "Scanner" /\ histories
  IN  [its EXCEPT ![idx].cpu = u, ![idx].memory = u,
                  ![idx].cpuHistory = IF keep THEN Push(@, u) ELSE @,
                  ![idx].memoryHistory = IF keep THEN Push(@, u) ELSE @,
                  ![idx].shifted =
                     @ \/ (keep /\ Len(Append(its[idx].cpuHistory, u)) > HISTORY_LEN)]

\* A catch that forgets the record's readings.
UnsampledCleared(its, key) ==
  LET idx == IndexOfKey(its, key)
  IN  [its EXCEPT ![idx].cpu = 0, ![idx].memory = 0,
                  ![idx].cpuHistory = << >>, ![idx].memoryHistory = << >>]

\* pidusage threw: "catch { // ignore }", the record as it was
Unsampled(its, key) == its

\* await pidusage(rec.pid) settles
Usage(i, ok, u) ==
  /\ EngineMode
  /\ op' = IF ok THEN "Usage" ELSE "UsageFailed"
  /\ i \in 1..Len(cycles)
  /\ cycles[i].pc = "usage"
  /\ u \in Samples
  /\ LET c   == cycles[i]
         its == IF ~c.curLive THEN items
                ELSE IF ok THEN Sampled(items, c.cur, u) ELSE Unsampled(items, c.cur)
         c2  == [c EXCEPT !.cur = NoKey, !.curLive = FALSE]
     IN  /\ Commit(cycles, i, Loop(c2, its, << >>))
         /\ cwdLog' = RunLoop(c2, its).log
  /\ UNCHANGED << envVars, updaterVars, cwdCache, changes, clock, listening, settings, timer, liveTimers,
                  lastCall >>

\* The cwd resolution of getProcessCwd settles (a failure is caught and counts as
\* no answer): the entry is stored, scan() sets rec.cwd and awaits pidusage.
CwdSettle(i, got) ==
  /\ self = "Scanner"
  /\ op' = "CwdSettle"
  /\ i \in 1..Len(cycles)
  /\ cycles[i].pc = "cwd"
  /\ got \in CwdAnswers
  /\ LET c   == cycles[i]
         pid == c.cur[1]
         its == IF ~c.curLive THEN items
                ELSE [items EXCEPT ![IndexOfKey(items, c.cur)].cwd = CwdOf(pid, got)]
     IN  /\ cwdCache' = [cwdCache EXCEPT ![pid] =
                           [present |-> TRUE, cwd |-> got, time |-> clock]]
         /\ cwdLog' = [kind |-> "resolved", key |-> c.cur, pid |-> pid, cwd |-> got,
                       regex |-> got = NoCwd]
         /\ Commit(cycles, i, [cyc |-> [c EXCEPT !.pc = "usage"], alive |-> TRUE,
                               items |-> its, recon |-> NoRecon, events |-> << >>,
                               ended |-> "none"])
  /\ UNCHANGED << envVars, updaterVars, changes, clock, listening, settings, timer, liveTimers, lastCall >>

\* ------------------------------------------------------------ environment
\* Time passes; a timer that is due runs its callback before the clock moves on.
Advance ==
  /\ clock < horizon
  /\ op' = "Advance"
  /\ \A i \in 1..Len(liveTimers) : liveTimers[i].nextFire # clock
  /\ clock' = clock + 1
  /\ Quiet
  /\ UNCHANGED << envVars, updaterVars, cwdCache, cwdLog, changes, listening, settings, timer, liveTimers, lastCall, items,
                  cycles, healthVars >>

\* A process starts or stops listening (an AutoHotkey process starts or exits).
Toggle(c) ==
  /\ EngineMode
  /\ op' = "Toggle"
  /\ c \in Range(World)
  /\ listening' = IF c \in listening THEN listening \ {c} ELSE listening \cup {c}
  /\ Quiet
  /\ UNCHANGED << envVars, updaterVars, cwdCache, cwdLog, changes, clock, settings, timer, liveTimers, lastCall, items,
                  cycles, healthVars >>

\* ------------------------------------------------------- health-checker.ts
SLOW_THRESHOLD_MS == 500
DOWN_THRESHOLD_MS == 2000
CHECK_TIMEOUT_MS  == 3000

NoTime == 0 - 1     \* responseTime: undefined

\* What a probe can come back with: a round-trip time, or an error.
ProbeTimes  == { 499, 500, 1999, 2000 }
ProbeErrors == { "Timeout", "ECONNREFUSED" }

ProbeOutcomes ==
  { [ok |-> TRUE, ms |-> t, err |-> ""] : t \in ProbeTimes } \cup
  { [ok |-> FALSE, ms |-> NoTime, err |-> e] : e \in ProbeErrors }

\* A classification whose thresholds belong to the band below them.
ClassifyInclusive(responseTime) ==
  IF responseTime <= SLOW_THRESHOLD_MS THEN "healthy"
  ELSE IF responseTime <= DOWN_THRESHOLD_MS THEN "slow" ELSE "down"

Classify(responseTime) ==
  IF responseTime < SLOW_THRESHOLD_MS THEN "healthy"
  ELSE IF responseTime < DOWN_THRESHOLD_MS THEN "slow" ELSE "down"

\* The record checkServer stores when pingUrl resolved / rejected.
HealthOk(server, responseTime) ==
  [key |-> server.key, url |-> server.url, status |-> Classify(responseTime),
   responseTime |-> responseTime, lastChecked |-> clock, error |-> ""]

\* A failure record that carries the time-out as its response time.
HealthErrTimed(server, err) ==
  [key |-> server.key, url |-> server.url, status |-> "down",
   responseTime |-> CHECK_TIMEOUT_MS, lastChecked |-> clock, error |-> err]

HealthErr(server, err) ==
  [key |-> server.key, url |-> server.url, status |-> "down",
   responseTime |-> NoTime, lastChecked |-> clock, error |-> err]

\* Map.set: an existing key keeps its place, a new key goes last.
MapSet(res, h) ==
  IF \E i \in 1..Len(res) : res[i].key = h.key
  THEN [ i \in 1..Len(res) |-> IF res[i].key = h.key THEN h ELSE res[i] ]
  ELSE Append(res, h)

ServerA == [key |-> << 100, 3000 >>, url |-> UrlOf(3000)]
ServerB == [key |-> << 200, 6000 >>, url |-> UrlOf(6000)]

\* The lists a caller pushes with setServers.
ServerLists == { << >>, << ServerA >>, << ServerB >>, << ServerB, ServerA >> }

HealthMode == self = "HealthChecker"

\* The behaviours that follow checkAll() and its probes.
ProberMode == HealthMode \/ (self = "Scanner" /\ probing)

HealthQuiet == Quiet /\ UNCHANGED << items, cycles >>

\* A checkAll() that emits its update before the probes have settled.
CheckAllEager(srv, res) ==
  /\ checks' = IF srv = << >> THEN checks ELSE Append(checks, [pending |-> Range(srv)])
  /\ emitted' = << Ev("update", NoKey, res) >>

\* checkAll() up to Promise.allSettled: one probe per server; with no server
\* the update is emitted at once.
CheckAll(srv, res) ==
  IF srv = << >>
  THEN /\ checks' = checks
       /\ emitted' = << Ev("update", NoKey, res) >>
  ELSE /\ checks' = Append(checks, [pending |-> Range(srv)])
       /\ emitted' = << >>

SetServers(list) ==
  /\ HealthMode
  /\ op' = "SetServers"
  /\ list \in ServerLists
  /\ servers' = SetServersList(list)
  /\ results' = PruneResults(results, list)
  /\ HealthQuiet
  /\ UNCHANGED << envVars, updaterVars, cwdCache, cwdLog, changes, clock, listening, settings, timer, liveTimers, lastCall,
                  intervalMs, checks >>

\* HealthChecker.start() with this.intervalMs = ms
HealthStartWith(ms) ==
  /\ Len(checks) < MaxCycles
  /\ LET lt == StopLive(liveTimers, timer)
     IN  /\ liveTimers' = Append(lt, NewTimer(ms))
         /\ timer' = Len(lt) + 1
  /\ CheckAll(servers, results)
  /\ lastCall' = "start"
  /\ ended' = "none" /\ recon' = NoRecon /\ lastEv' = lastEv
  /\ UNCHANGED << envVars, updaterVars, cwdCache, cwdLog, changes, clock, listening, settings, items, cycles, servers, results >>

HealthStart ==
  /\ HealthMode
  /\ op' = "HealthStart"
  /\ HealthStartWith(intervalMs)
  /\ UNCHANGED intervalMs

HealthStop ==
  /\ HealthMode
  /\ op' = "HealthStop"
  /\ liveTimers' = StopLive(liveTimers, timer)
  /\ timer' = 0
  /\ lastCall' = "stop"
  /\ HealthQuiet
  /\ UNCHANGED << envVars, updaterVars, cwdCache, cwdLog, changes, clock, listening, settings, healthVars >>

\* HealthChecker.setInterval(ms)
HealthSetInterval(ms) ==
  /\ HealthMode
  /\ op' = "HealthSetInterval"
  /\ ms \in { 1, 2 }
  /\ intervalMs' = ms
  /\ IF timer # 0
     THEN HealthStartWith(ms)
     ELSE /\ HealthQuiet
          /\ UNCHANGED << envVars, updaterVars, cwdCache, cwdLog, changes, clock, listening, settings, timer, liveTimers,
                          lastCall, servers, results, checks >>

\* The interval timer's callback: () => this.checkAll()
HealthTimerFire(i) ==
  /\ HealthMode
  /\ op' = "HealthTimerFire"
  /\ i \in 1..Len(liveTimers)
  /\ clock = liveTimers[i].nextFire
  /\ Len(checks) < MaxCycles
  /\ CheckAll(servers, results)
  /\ liveTimers' = [liveTimers EXCEPT ![i].nextFire = clock + liveTimers[i].period]
  /\ ended' = "none" /\ recon' = NoRecon /\ lastEv' = lastEv
  /\ UNCHANGED << envVars, updaterVars, cwdCache, cwdLog, changes, clock, listening, settings, timer, lastCall, items, cycles,
                  servers, results, intervalMs >>

\* The prober's interval callback seen from a behaviour of the server engine,
\* which does not follow the prober's timer: checkAll() at any time.
ProberTick ==
  /\ self = "Scanner" /\ probing
  /\ op' = "ProberTick"
  /\ Len(checks) < MaxCycles
  /\ CheckAll(servers, results)
  /\ ended' = "none" /\ recon' = NoRecon /\ lastEv' = lastEv
  /\ UNCHANGED << envVars, updaterVars, cwdCache, cwdLog, changes, clock, listening, settings, timer, liveTimers, lastCall,
                  items, cycles, servers, results, intervalMs >>

\* pingUrl of one probe settles; checkServer stores its record; when it was the
\* last probe of its checkAll, the update is emitted.
ProbeSettle(j, server, out) ==
  /\ ProberMode
  /\ op' = "ProbeSettle"
  /\ j \in 1..Len(checks)
  /\ server \in checks[j].pending
  /\ out \in ProbeOutcomes
  /\ LET h    == IF out.ok THEN HealthOk(server, out.ms)
                 ELSE HealthErr(server, out.err)
         res  == MapSet(results, h)
         left == checks[j].pending \ {server}
     IN  /\ results' = res
         /\ IF left = {}
            THEN /\ checks' = RemoveAt(checks, j)
                 /\ emitted' = << Ev("update", NoKey, res) >>
            ELSE /\ checks' = [checks EXCEPT ![j].pending = left]
                 /\ emitted' = << >>
  /\ ended' = "none" /\ recon' = NoRecon /\ lastEv' = lastEv
  /\ UNCHANGED << envVars, updaterVars, cwdCache, cwdLog, changes, clock, listening, settings, timer, liveTimers, lastCall,
                  items, cycles, servers, intervalMs >>

AllKeys == { KeyOf(c) : c \in Range(World) }

\* ------------------------------------------------------ the specifications
\* The fields of the followed object after construction, the store at its defaults
\* or at cfg, and nothing listening yet.
Constructed(cfg) ==
  /\ clock = 0
  /\ listening = {}
  /\ settings = cfg
  /\ changes = 0
  /\ timer = 0
  /\ liveTimers = << >>
  /\ lastCall = "none"
  /\ items = << >>
  /\ cycles = << >>
  /\ op = "new"
  /\ emitted = << >>
  /\ ended = "none"
  /\ recon = NoRecon
  /\ lastEv = [ k \in AllKeys |-> "none" ]
  /\ servers = << >>
  /\ results = << >>
  /\ intervalMs = 1
  /\ checks = << >>
  /\ cwdCache = [ pid \in { c.pid : c \in Range(World) } |-> NoEntry ]
  /\ cwdLog = NoLog
  /\ isPackaged \in IF self = "Updater" THEN BOOLEAN ELSE { FALSE }
  /\ currentStatus = "idle"
  /\ timeouts = << >>
  /\ listeners = [ ev \in UpdaterEvents |-> 0 ]
  /\ ipcHandlers = [ ch \in UpdaterChannels |-> 0 ]
  /\ flight = "none"
  /\ inits = 0

\* Any of the three objects, in a world of one possible connection (process).
Init ==
  /\ self \in {"Scanner", "AHKScanner", "HealthChecker"}
  /\ platform \in {"win32", "linux"}
  /\ self = "HealthChecker" => platform = "linux"
  /\ world = IF self = "Scanner" THEN OneConn
             ELSE IF self = "AHKScanner" THEN OneProc ELSE << >>
  /\ horizon = MaxTime
  /\ histories = FALSE
  /\ probing = FALSE
  /\ caching = FALSE
  /\ procText = NoProc
  /\ Constructed(DefaultSettings)

Steps ==
  \/ \E i \in 1..MaxCycles, ok \in BOOLEAN : Source1(i, ok)
  \/ \E i \in 1..MaxCycles, ok \in BOOLEAN : Source2(i, ok)
  \/ \E i \in 1..MaxCycles, ok \in BOOLEAN : Procs(i, ok)
  \/ \E i \in 1..MaxCycles, ok \in BOOLEAN, u \in Usages : Usage(i, ok, u)

\* Every call and callback in any order: start(), stop(), the timers, the manual
\* refresh, the awaits settling, the clock, the processes coming and going.
Next ==
  \/ Start
  \/ Stop
  \/ \E i \in 1..MaxCycles : TimerFire(i)
  \/ Refresh
  \/ Steps
  \/ Advance
  \/ \E c \in Range(World) : Toggle(c)
  \/ HealthStart
  \/ HealthStop
  \/ \E ms \in { 1, 2 } : HealthSetInterval(ms)
  \/ \E i \in 1..MaxCycles : HealthTimerFire(i)

Spec == Init /\ [][Next]_vars

\* ---- an engine started once, at a fixed interval, its cycles not overlapping
GraceInit ==
  /\ self \in {"Scanner", "AHKScanner"}
  /\ platform = IF self = "Scanner" THEN "linux" ELSE "win32"
  /\ world \in IF self = "Scanner" THEN { ServerConns, ZeroConns } ELSE { AhkProcs }
  /\ \E cfg \in { DefaultSettings, [DefaultSettings EXCEPT !.scanIntervalMs = 2] } :
       /\ horizon = GraceTime * cfg.scanIntervalMs
       /\ histories = FALSE
       /\ probing = FALSE
       /\ caching = FALSE
       /\ procText = NoProc
       /\ Constructed(cfg)

\* app.whenReady: scanner.start(); ahkScanner.start()
StartOnce == lastCall = "none" /\ clock = 0 /\ Start

\* Time passes once the app is ready.
Elapse == lastCall = "start" /\ Advance

\* A tick that finds the previous cycle finished.
Tick(i) == cycles = << >> /\ TimerFire(i)

GraceNext ==
  \/ StartOnce
  \/ \E i \in 1..MaxCycles : Tick(i)
  \/ Steps
  \/ Elapse
  \/ \E c \in Range(World) : Toggle(c)

GraceSpec == GraceInit /\ [][GraceNext]_vars

\* The same in a world of one possible connection (process), one interval longer,
\* the timer ticking and every await settling.
LiveInit ==
  /\ self \in {"Scanner", "AHKScanner"}
  /\ platform = IF self = "Scanner" THEN "linux" ELSE "win32"
  /\ world = IF self = "Scanner" THEN OneConn ELSE OneProc
  /\ \E cfg \in { DefaultSettings, [DefaultSettings EXCEPT !.scanIntervalMs = 2] } :
       /\ horizon = (GraceTime + 1) * cfg.scanIntervalMs
       /\ histories = FALSE
       /\ probing = FALSE
       /\ caching = FALSE
       /\ procText = NoProc
       /\ Constructed(cfg)

\* WF_vars(Steps) written out: a step of Steps is enabled exactly when a cycle is
\* parked at an await, and every await settles.
StepsFair == []<>(cycles = << >>) \/ []<><<Steps>>_vars

LiveSpec ==
  /\ LiveInit
  /\ [][GraceNext]_vars
  /\ WF_vars(StartOnce)
  /\ WF_vars(\E i \in 1..MaxCycles : Tick(i))
  /\ StepsFair
  /\ WF_vars(Elapse)

\* ---- the server engine while the settings window changes the settings
ConfigInit ==
  /\ self = "Scanner"
  /\ platform = "linux"
  /\ world = ConfigConns
  /\ horizon = MaxTime
  /\ histories = FALSE
  /\ probing = FALSE
  /\ caching = FALSE
  /\ procText = NoProc
  /\ Constructed(DefaultSettings)

\* The settings window is served once the app is ready.
Change(s) == lastCall = "start" /\ SettingsUpdate(s)

\* What is listening when the app starts; afterwards processes only exit.
Before(c) == lastCall = "none" /\ Toggle(c)
Exit(c)   == lastCall = "start" /\ c \in listening /\ Toggle(c)

ConfigNext ==
  \/ StartOnce
  \/ \E s \in SettingsChoices : Change(s)
  \/ \E i \in 1..MaxCycles : Tick(i)
  \/ \E i \in 1..MaxCycles, ok \in BOOLEAN : Source1(i, ok)
  \/ \E i \in 1..MaxCycles, ok \in BOOLEAN : Procs(i, ok)
  \/ \E i \in 1..MaxCycles, ok \in BOOLEAN, u \in Usages : Usage(i, ok, u)
  \/ Elapse
  \/ \E c \in Range(World) : Before(c)
  \/ \E c \in Range(World) : Exit(c)

ConfigSpec == ConfigInit /\ [][ConfigNext]_vars

\* ---- the metric histories: one listener, scan() called again and again, the
\* invocations overlapping, pidusage answering with either of two readings
HistoryInit ==
  /\ self = "Scanner"
  /\ platform = "linux"
  /\ world = OneConn
  /\ horizon = 0
  /\ histories = TRUE
  /\ probing = FALSE
  /\ caching = FALSE
  /\ procText = NoProc
  /\ Constructed(DefaultSettings)

HistoryNext ==
  \/ \E c \in Range(World) : Before(c)
  \/ StartOnce
  \/ Refresh
  \/ \E i \in 1..MaxCycles, ok \in BOOLEAN : Source1(i, ok)
  \/ \E i \in 1..MaxCycles, ok \in BOOLEAN : Procs(i, ok)
  \/ \E i \in 1..MaxCycles, ok \in BOOLEAN, u \in Samples : Usage(i, ok, u)

HistorySpec == HistoryInit /\ [][HistoryNext]_vars

\* ---- the sampling: two entities of either engine, the histories followed,
\* start() once and the timer cycles of SampleTime intervals
SampleInit ==
  /\ \/ self = "Scanner" /\ platform = "linux" /\ world = ServerConns
     \/ self = "AHKScanner" /\ platform = "win32" /\ world = AhkProcs
  /\ horizon = SampleTime
  /\ histories = TRUE
  /\ probing = FALSE
  /\ caching = FALSE
  /\ procText = NoProc
  /\ Constructed(DefaultSettings)

SampleSpec == SampleInit /\ [][GraceNext]_vars

\* ---- the cwd cache: two servers, start() once and the timer cycles over
\* CacheTime intervals of 10 s, the cwd resolution answering or not
CacheInit ==
  /\ self = "Scanner"
  /\ platform = "linux"
  /\ world = ServerConns
  /\ horizon = CacheTime
  /\ histories = FALSE
  /\ probing = FALSE
  /\ caching = TRUE
  /\ procText = NoProc
  /\ Constructed(DefaultSettings)

CacheNext ==
  \/ \E c \in Range(World) : Before(c)
  \/ StartOnce
  \/ \E i \in 1..MaxCycles : Tick(i)
  \/ \E i \in 1..MaxCycles, ok \in BOOLEAN : Source1(i, ok)
  \/ \E i \in 1..MaxCycles, ok \in BOOLEAN : Procs(i, ok)
  \/ \E i \in 1..MaxCycles, got \in CwdAnswers : CwdSettle(i, got)
  \/ \E i \in 1..MaxCycles, ok \in BOOLEAN, u \in Usages : Usage(i, ok, u)
  \/ Elapse

CacheSpec == CacheInit /\ [][CacheNext]_vars

\* The same with the processes exiting.
EvictNext ==
  \/ \E c \in Range(World) : Before(c)
  \/ StartOnce
  \/ \E i \in 1..MaxCycles : Tick(i)
  \/ \E i \in 1..MaxCycles, ok \in BOOLEAN : Source1(i, ok)
  \/ \E i \in 1..MaxCycles, ok \in BOOLEAN : Procs(i, ok)
  \/ \E i \in 1..MaxCycles, got \in CwdAnswers : CwdSettle(i, got)
  \/ \E i \in 1..MaxCycles, ok \in BOOLEAN, u \in Usages : Usage(i, ok, u)
  \/ Elapse
  \/ \E c \in Range(World) : Exit(c)

EvictSpec == CacheInit /\ [][EvictNext]_vars

\* ---- the server engine and the prober it feeds: one listener that can exit,
\* start() once and the timer cycles, the prober ticking at any time
LinkOutcomes == { [ok |-> TRUE, ms |-> 499, err |-> ""] }

LinkInit ==
  /\ self = "Scanner"
  /\ platform = "linux"
  /\ world = OneConn
  /\ horizon = GraceTime
  /\ histories = FALSE
  /\ probing = TRUE
  /\ caching = FALSE
  /\ procText = NoProc
  /\ Constructed(DefaultSettings)

LinkNext ==
  \/ \E c \in Range(World) : Before(c)
  \/ StartOnce
  \/ \E i \in 1..MaxCycles : Tick(i)
  \/ \E i \in 1..MaxCycles, ok \in BOOLEAN : Source1(i, ok)
  \/ \E i \in 1..MaxCycles, ok \in BOOLEAN : Procs(i, ok)
  \/ \E i \in 1..MaxCycles, ok \in BOOLEAN, u \in Usages : Usage(i, ok, u)
  \/ Elapse
  \/ \E c \in Range(World) : Exit(c)
  \/ ProberTick
  \/ \E j \in 1..MaxCycles, out \in LinkOutcomes : ProbeSettle(j, ServerA, out)

LinkSpec == LinkInit /\ [][LinkNext]_vars

\* ---- the enumeration on win32: two listeners that come and go while the two
\* sources of getListening() are read, the first cycle of the server engine
MergeInit ==
  /\ self = "Scanner"
  /\ platform = "win32"
  /\ world = MergeConns
  /\ horizon = 0
  /\ histories = FALSE
  /\ probing = FALSE
  /\ caching = FALSE
  /\ procText = NoProc
  /\ Constructed(DefaultSettings)

MergeNext ==
  \/ \E c \in Range(World) : Toggle(c)
  \/ StartOnce
  \/ \E i \in 1..MaxCycles, ok \in BOOLEAN : Source1(i, ok)
  \/ \E i \in 1..MaxCycles, ok \in BOOLEAN : Source2(i, ok)
  \/ \E i \in 1..MaxCycles, ok \in BOOLEAN : Procs(i, ok)
  \/ \E i \in 1..MaxCycles, ok \in BOOLEAN, u \in Usages : Usage(i, ok, u)

MergeSpec == MergeInit /\ [][MergeNext]_vars

\* ---- the port filter: one listener on a port of FilterPorts, the first cycle of
\* the server engine under a configuration of FilterConfigs
FilterPorts == { 2999, 3000, 3001, 5172, 5173, 5199, 5200 }

FilterLists ==
  { DefaultPorts, << PortRange(5173, 5199) >>, << PortRange(5199, 5173) >>, << >> }

FilterConfigs ==
  { [scanIntervalMs |-> 1, ports |-> l, scanAllPorts |-> a] :
      l \in FilterLists, a \in BOOLEAN }

FilterInit ==
  /\ self = "Scanner"
  /\ platform = "linux"
  /\ \E p \in FilterPorts : world = << Conn(100, p) >>
  /\ horizon = 0
  /\ histories = FALSE
  /\ probing = FALSE
  /\ caching = FALSE
  /\ procText = NoProc
  /\ \E cfg \in FilterConfigs : Constructed(cfg)

FilterNext ==
  \/ \E c \in Range(World) : Before(c)
  \/ StartOnce
  \/ \E i \in 1..MaxCycles, ok \in BOOLEAN : Source1(i, ok)
  \/ \E i \in 1..MaxCycles, ok \in BOOLEAN : Procs(i, ok)
  \/ \E i \in 1..MaxCycles, ok \in BOOLEAN, u \in Usages : Usage(i, ok, u)

FilterSpec == FilterInit /\ [][FilterNext]_vars

\* ---- the server engine classifying the framework of one process
FrameworkInit ==
  /\ self = "Scanner"
  /\ platform = "linux"
  /\ world = OneConn
  /\ horizon = 0
  /\ histories = FALSE
  /\ probing = FALSE
  /\ caching = FALSE
  /\ \E cmd \in Commands, name \in Names : procText = [command |-> cmd, name |-> name]
  /\ Constructed(DefaultSettings)

FrameworkNext ==
  \/ \E c \in Range(World) : Before(c)
  \/ StartOnce
  \/ \E i \in 1..MaxCycles, ok \in BOOLEAN : Source1(i, ok)
  \/ \E i \in 1..MaxCycles, ok \in BOOLEAN : Procs(i, ok)
  \/ \E i \in 1..MaxCycles, ok \in BOOLEAN, u \in Usages : Usage(i, ok, u)

FrameworkSpec == FrameworkInit /\ [][FrameworkNext]_vars

\* ---- one entity coming and going, its readings kept, the timer's cycles
\* overlapping
ReappearInit ==
  /\ self \in {"Scanner", "AHKScanner"}
  /\ platform = IF self = "Scanner" THEN "linux" ELSE "win32"
  /\ world = IF self = "Scanner" THEN OneConn ELSE OneProc
  /\ horizon = ReappearTime
  /\ histories = TRUE
  /\ probing = FALSE
  /\ caching = FALSE
  /\ procText = NoProc
  /\ Constructed(DefaultSettings)

ReappearNext ==
  \/ StartOnce
  \/ \E i \in 1..MaxCycles : TimerFire(i)
  \/ Refresh
  \/ Steps
  \/ Elapse
  \/ \E c \in Range(World) : Toggle(c)

ReappearSpec == ReappearInit /\ [][ReappearNext]_vars

\* ---- either engine started once, the settings window changing the settings
IntervalInit ==
  /\ self \in {"Scanner", "AHKScanner"}
  /\ platform = IF self = "Scanner" THEN "linux" ELSE "win32"
  /\ world = IF self = "Scanner" THEN OneConn ELSE OneProc
  /\ horizon = MaxTime
  /\ histories = FALSE
  /\ probing = FALSE
  /\ caching = FALSE
  /\ procText = NoProc
  /\ Constructed(DefaultSettings)

IntervalNext ==
  \/ StartOnce
  \/ \E s \in SettingsChoices : Change(s)
  \/ \E i \in 1..MaxCycles : Tick(i)
  \/ \E i \in 1..MaxCycles, ok \in BOOLEAN : Source1(i, ok)
  \/ \E i \in 1..MaxCycles, ok \in BOOLEAN : Procs(i, ok)
  \/ \E i \in 1..MaxCycles, ok \in BOOLEAN, u \in Usages : Usage(i, ok, u)
  \/ Elapse
  \/ \E c \in Range(World) : Before(c)
  \/ \E c \in Range(World) : Exit(c)

IntervalSpec == IntervalInit /\ [][IntervalNext]_vars

\* ---- the server engine enumerating tuples without pid or without port
IdentityInit ==
  /\ self = "Scanner"
  /\ platform = "linux"
  /\ world = IdentityConns
  /\ horizon = GraceTime
  /\ histories = FALSE
  /\ probing = FALSE
  /\ caching = FALSE
  /\ procText = NoProc
  /\ \E cfg \in { DefaultSettings, [DefaultSettings EXCEPT !.scanAllPorts = TRUE] } :
       Constructed(cfg)

IdentityNext ==
  \/ \E c \in Range(World) : Before(c)
  \/ StartOnce
  \/ \E i \in 1..MaxCycles : Tick(i)
  \/ \E i \in 1..MaxCycles, ok \in BOOLEAN : Source1(i, ok)
  \/ \E i \in 1..MaxCycles, ok \in BOOLEAN : Procs(i, ok)
  \/ \E i \in 1..MaxCycles, ok \in BOOLEAN, u \in Usages : Usage(i, ok, u)
  \/ Elapse
  \/ \E c \in Range(World) : Exit(c)

IdentitySpec == IdentityInit /\ [][IdentityNext]_vars

\* ---- the settings window storing a ports text
ParseInit ==
  /\ self = "Scanner"
  /\ platform = "linux"
  /\ world = OneConn
  /\ horizon = 0
  /\ histories = FALSE
  /\ probing = FALSE
  /\ caching = FALSE
  /\ procText = NoProc
  /\ Constructed(DefaultSettings)

ParseNext ==
  \/ StartOnce
  \/ \E text \in PortTexts : lastCall = "start" /\ PortsUpdate(text)

ParseSpec == ParseInit /\ [][ParseNext]_vars

\* ---- the updater: initUpdater called again and again, the settings window
\* asking for checks and downloads, the requests and the timeouts coming back
UpdaterInit ==
  /\ self = "Updater"
  /\ platform = "linux"
  /\ world = << >>
  /\ horizon = UpdaterTime
  /\ histories = FALSE
  /\ probing = FALSE
  /\ caching = FALSE
  /\ procText = NoProc
  /\ Constructed(DefaultSettings)

UpdaterNext ==
  \/ InitUpdater /\ EnginesIdle
  \/ \E i \in 1..MaxTimeouts : TimeoutFire(i) /\ EnginesIdle
  \/ IpcCheck /\ EnginesIdle
  \/ \E ev \in UpdaterEvents : CheckResult(ev) /\ EnginesIdle
  \/ IpcDownload /\ EnginesIdle
  \/ \E ev \in UpdaterEvents : DownloadEvent(ev) /\ EnginesIdle
  \/ IpcInstallFailed /\ EnginesIdle
  \/ IpcDismiss /\ EnginesIdle
  \/ UpdaterElapse /\ EnginesIdle

UpdaterSpec == UpdaterInit /\ [][UpdaterNext]_vars

\* ---- the health prober with its servers and probes
HealthInit ==
  /\ self = "HealthChecker"
  /\ platform = "linux"
  /\ world = << >>
  /\ horizon = HealthTime
  /\ histories = FALSE
  /\ probing = FALSE
  /\ caching = FALSE
  /\ procText = NoProc
  /\ Constructed(DefaultSettings)

HealthNext ==
  \/ \E list \in ServerLists : SetServers(list)
  \/ HealthStart
  \/ HealthStop
  \/ \E ms \in { 1, 2 } : HealthSetInterval(ms)
  \/ \E i \in 1..MaxCycles : HealthTimerFire(i)
  \/ \E j \in 1..MaxCycles, server \in { ServerA, ServerB },
        out \in ProbeOutcomes : ProbeSettle(j, server, out)
  \/ Advance

HealthSpec == HealthInit /\ [][HealthNext]_vars

\* ---- the health prober started once, its timer ticking, every probe settling
HealthStartOnce == lastCall = "none" /\ HealthStart

HealthLiveNext ==
  \/ \E list \in ServerLists : SetServers(list)
  \/ HealthStartOnce
  \/ \E i \in 1..MaxCycles : HealthTimerFire(i)
  \/ \E j \in 1..MaxCycles, server \in { ServerA, ServerB },
        out \in ProbeOutcomes : ProbeSettle(j, server, out)
  \/ Elapse

\* pingUrl resolves, or rejects at the latest when its time-out fires.
ProbesFair ==
  WF_vars(\E j \in 1..MaxCycles, server \in { ServerA, ServerB },
             out \in ProbeOutcomes : ProbeSettle(j, server, out))

HealthLiveSpec == HealthInit /\ [][HealthLiveNext]_vars /\ ProbesFair

\* ------------------------------------------------------------ the properties
InMap(k) == k \in KeysOf(items)
Rec(k)   == items[IndexOfKey(items, k)]

EventsOf(evs, type) == SelectSeq(evs, LAMBDA e : e.type = type)

\* The new / stopped events of evs that are about key k.
About(evs, k) ==
  { j \in 1..Len(evs) : evs[j].type \in {"new", "stopped"} /\ evs[j].key = k }

\* C2: for every key, under every interleaving of timer cycles, start() cycles and
\* manual refresh cycles, the new and stopped events alternate and begin with new:
\* a stopped follows a new, a new follows nothing or a stopped, and one step emits
\* at most one of them for a key.
EventsAlternate ==
  [][ \A k \in DOMAIN lastEv :
        /\ Cardinality(About(emitted', k)) <= 1
        /\ k \in Stopped(emitted') => lastEv[k] \in {"new", "again"}
        /\ k \in Created(emitted') => lastEv[k] \in {"none", "stopped"} ]_vars

\* A key is announced again after it was stopped, while another cycle is in flight.
EventsAlternateWitness ==
  \E k \in DOMAIN lastEv :
    /\ k \in Created(emitted)
    /\ lastEv[k] = "again"
    /\ Len(cycles) = MaxCycles

\* C6: a cycle that throws is reported by exactly one error event and no update, and
\* ends there: the timer and its handle, the entity map and the other cycles in
\* flight are as they were, so the timer goes on starting cycles.
FailureContained ==
  [][ ended' = "catch" =>
        /\ Len(emitted') = 1
        /\ emitted'[1].type = "error"
        /\ timer' = timer
        /\ liveTimers' = liveTimers
        /\ items' = items
        /\ Len(cycles') = Len(cycles) - 1 ]_vars

\* A cycle has failed; the timer is active and another cycle is still in flight.
FailureContainedWitness ==
  /\ ended = "catch"
  /\ timer # 0
  /\ Len(liveTimers) = 1
  /\ cycles # << >>

\* C7: after any sequence of start(), stop() (and HealthChecker.setInterval) calls
\* the object has at most one active timer, and exactly one iff the last of the
\* start()/stop() calls was start().
OneTimer ==
  /\ Len(liveTimers) <= 1
  /\ Len(liveTimers) = 1 <=> lastCall = "start"
  /\ timer = Len(liveTimers)

\* start() has been called on an object whose timer was running: by setInterval of
\* the health prober, or by a second start() of an engine.
OneTimerWitness ==
  /\ Len(liveTimers) = 1
  /\ \/ op = "HealthSetInterval" /\ liveTimers[1].period = 2
     \/ op = "Start" /\ Len(cycles) = MaxCycles /\ clock = 0

\* C8: stop() only keeps the timer from starting cycles: while the last call is
\* stop() no step is a timer callback, and stop() itself leaves the cycles in
\* flight and the entity map alone.
StopOnlyStopsTimer ==
  [][ /\ lastCall' = "stop" => op' \notin {"TimerFire", "HealthTimerFire"}
      /\ op' \in {"Stop", "HealthStop"} =>
           /\ liveTimers' = << >>
           /\ cycles' = cycles
           /\ items' = items ]_vars

\* After stop() returned, a cycle of the script engine that was in flight has
\* created an entity and announced it.
StopOnlyStopsTimerWitness ==
  /\ self = "AHKScanner"
  /\ lastCall = "stop"
  /\ op \in {"Source1", "Source2"}
  /\ Created(emitted) # {}
  /\ items # << >>

\* ----------------------------------------- the reconciliation of the last step
\* The keys of the tuples the cycle got from its enumeration and kept under cfg.
FilteredKeys(cfg) == { KeyOf(c) : c \in Range(Interested(recon.byKey, cfg)) }

\* Those of them whose pid and port are both non-zero.
TrackedKeys(cfg) ==
  { KeyOf(c) : c \in { x \in Range(Interested(recon.byKey, cfg)) : ~SkipConn(x) } }

\* The lastSeen values a key has at this point: that of its entity, or that of the
\* record the cycle has just deleted.
LastSeens(k) ==
  { items[i].lastSeen : i \in { j \in 1..Len(items) : items[j].key = k } } \cup
  { emitted[i].payload[1].lastSeen :
      i \in { j \in 1..Len(emitted) : emitted[j].type = "stopped" /\ emitted[j].key = k } }

WithinGrace(k, interval) ==
  \E t \in LastSeens(k) : recon.now - t <= 2 * interval

\* C1: an engine started once with the fixed interval I, its cycles not overlapping:
\* when a cycle finds an entity absent from its filtered enumeration, the entity was
\* last seen I, 2 I or 3 I ago; after I or 2 I it stays in the map and no stopped is
\* emitted; after 3 I it is deleted in that cycle with exactly one stopped event.
GracePeriod ==
  [][ recon'.valid =>
        \A i \in 1..Len(items) :
          LET rec  == items[i]
              gone == recon'.now - rec.lastSeen
              I    == settings.scanIntervalMs
          IN  rec.key \notin TrackedKeys(settings)' =>
                \/ /\ gone \in { I, 2 * I }
                   /\ rec \in Range(items')
                   /\ About(emitted', rec.key) = {}
                \/ /\ gone = 3 * I
                   /\ rec.key \notin KeysOf(items')
                   /\ Cardinality(About(emitted', rec.key)) = 1
                   /\ rec.key \in Stopped(emitted') ]_vars

\* A cycle has deleted an entity it last saw three intervals of two time units ago.
GracePeriodWitness ==
  /\ recon.valid
  /\ settings.scanIntervalMs = 2
  /\ \E k \in Stopped(emitted) :
       /\ ~InMap(k)
       /\ \E t \in LastSeens(k) : recon.now - t = 3 * settings.scanIntervalMs

\* C3 as amended: when a cycle has finished its create/refresh and stale-removal
\* steps, a key is in the entity map iff it is the key of a tuple of that cycle's
\* filtered enumeration with non-zero pid and port, or its lastSeen is within
\* 2 x scanInterval of the cycle's timestamp.
MembershipTracked ==
  recon.valid =>
    \A k \in AllKeys :
      InMap(k) <=> (k \in TrackedKeys(settings) \/ WithinGrace(k, settings.scanIntervalMs))

\* A cycle whose filtered enumeration held a tuple with pid 0 has kept an absent
\* entity within its grace period.
MembershipTrackedWitness ==
  /\ recon.valid
  /\ \E c \in Range(Interested(recon.byKey, settings)) : c.pid = 0
  /\ \E k \in AllKeys : InMap(k) /\ k \notin TrackedKeys(settings)

\* C3 as stated: ... iff it was in that cycle's filtered enumeration or its lastSeen
\* is within 2 x scanInterval.
MembershipFiltered ==
  recon.valid =>
    \A k \in AllKeys :
      InMap(k) <=> (k \in FilteredKeys(settings) \/ WithinGrace(k, settings.scanIntervalMs))

\* C5: a cycle that completes normally emits exactly one update, its payload holds
\* exactly the records of the entity map, and the server engine's payload is in
\* non-decreasing order of port; no other step of an engine emits an update.
OneUpdate ==
  LET ups == EventsOf(emitted, "update")
  IN  IF ended = "try"
      THEN /\ Len(ups) = 1
           /\ Len(ups[1].payload) = Len(items)
           /\ Range(ups[1].payload) = Range(items)
           /\ self = "Scanner" =>
                \A i \in 1..Len(items), j \in 1..Len(items) :
                  i < j => ups[1].payload[i].port <= ups[1].payload[j].port
      ELSE ups = << >>

\* A cycle of the server engine has completed with two entities whose Map order is
\* not their port order.
OneUpdateWitness ==
  /\ self = "Scanner"
  /\ ended = "try"
  /\ Len(items) = 2
  /\ items[1].port > items[2].port

\* The keys of the worlds of LiveInit.
KeyUniverse ==
  { << c.pid, c.localPort >> : c \in Range(OneConn) } \cup { << c.pid >> : c \in Range(OneProc) }

\* C4: the timer ticking and every enumeration completing, an entity of a started
\* engine that has three more intervals ahead of its lastSeen is eventually deleted
\* with its stopped event emitted, unless a later cycle finds its key in its
\* filtered enumeration again.
EventuallyStopped ==
  \A k \in KeyUniverse :
    ( /\ lastCall = "start"
      /\ InMap(k)
      /\ Rec(k).lastSeen + 3 * settings.scanIntervalMs <= horizon )
      ~> ( \/ k \in Stopped(emitted) /\ ~InMap(k)
           \/ recon.valid /\ k \in TrackedKeys(settings) )

\* A cycle has deleted an entity that was seen by two cycles and then stayed
\* absent, and announced it.
EventuallyStoppedWitness ==
  \E j \in 1..Len(emitted) :
    /\ emitted[j].type = "stopped"
    /\ ~InMap(emitted[j].key)
    /\ emitted[j].payload[1].firstSeen < emitted[j].payload[1].lastSeen

\* What the reconciliation of the last step would show had it filtered the ports
\* and computed the grace period with the settings cfg: it created only keys of
\* tuples cfg includes, every such tuple is in the map and refreshed, what it deleted
\* was absent and out of cfg's grace period, what it kept absent is within it.
ReconciledUnder(cfg) ==
  recon.valid =>
    /\ Created(emitted) \subseteq TrackedKeys(cfg)
    /\ \A k \in TrackedKeys(cfg) : InMap(k) /\ Rec(k).lastSeen = recon.now
    /\ \A j \in 1..Len(emitted) :
         emitted[j].type = "stopped" =>
           /\ emitted[j].key \notin TrackedKeys(cfg)
           /\ recon.now - emitted[j].payload[1].lastSeen > 2 * cfg.scanIntervalMs
    /\ \A i \in 1..Len(items) :
         items[i].key \notin TrackedKeys(cfg) =>
           recon.now - items[i].lastSeen <= 2 * cfg.scanIntervalMs

ExcludedNeverTracked ==
  [][ \A k \in (KeysOf(items') \ KeysOf(items)) \cup Created(emitted') :
        inConfiguredPorts(k[2], settings') ]_vars

\* A cycle has enumerated the listeners (200, 6000) and (100, 3000) under the
\* default ports: it tracks and announces the second and not the first.
ExcludedNeverTrackedWitness ==
  /\ recon.valid
  /\ settings = DefaultSettings
  /\ Range(recon.byKey) = Range(ConfigConns)
  /\ Created(emitted) = { << 100, 3000 >> }
  /\ KeysOf(items) = { << 100, 3000 >> }

\* -------------------------------------------------------------- the port filter
\* The ports a ports list names: its explicit values and the closed intervals of
\* its ranges.
ListedPorts(ports) ==
  UNION { IF ports[i].isArray THEN ports[i].lo .. ports[i].hi ELSE { ports[i].lo } :
            i \in 1..Len(ports) }

\* C11: with scanAllPorts = true the filter includes every port, whatever the ports
\* list: inConfiguredPorts is true of every port, and the first cycle tracks every
\* tuple it enumerated.
ScanAllIncludes ==
  settings.scanAllPorts =>
    /\ \A p \in FilterPorts : inConfiguredPorts(p, settings)
    /\ recon.valid => \A c \in Range(recon.byKey) : InMap(KeyOf(c))

\* Under scanAllPorts and an empty ports list a cycle tracks the listener it found.
ScanAllIncludesWitness ==
  /\ recon.valid
  /\ settings.scanAllPorts
  /\ settings.ports = << >>
  /\ items # << >>

\* C12: without scanAllPorts the filter includes a port iff the ports list names it,
\* as an explicit value or inside the closed interval of a range (so both ends of
\* [5173, 5199] are included, 5172 and 5200 are not), and the first cycle tracks
\* exactly the enumerated tuples with such a port.
ListedIncludes ==
  ~settings.scanAllPorts =>
    /\ \A p \in FilterPorts :
         inConfiguredPorts(p, settings) <=> p \in ListedPorts(settings.ports)
    /\ recon.valid =>
         \A c \in Range(recon.byKey) :
           InMap(KeyOf(c)) <=> c.localPort \in ListedPorts(settings.ports)

\* Under the single range [5173, 5199] a cycle tracks the listener on port 5199.
ListedIncludesWitness ==
  /\ recon.valid
  /\ ~settings.scanAllPorts
  /\ settings.ports = << PortRange(5173, 5199) >>
  /\ InMap(<< 100, 5199 >>)

\* -------------------------------------------------------------- the enumeration
ConnKeys(list) == { KeyOf(list[i]) : i \in 1..Len(list) }

HasError(evs) == \E i \in 1..Len(evs) : evs[i].type = "error"

OneSourceSuffices ==
  (recon.valid /\ recon.src2.ran /\ recon.src1.ok # recon.src2.ok) =>
    /\ recon.byKey = IF recon.src1.ok THEN recon.src1.list ELSE recon.src2.list
    /\ ~HasError(emitted)

\* netstat failed after systeminformation had listed a listener: it is returned.
OneSourceSufficesWitness ==
  /\ recon.valid
  /\ recon.src1.ok
  /\ recon.src2.ran /\ ~recon.src2.ok
  /\ recon.byKey # << >>
  /\ items # << >>

AllSourcesFailed ==
  /\ recon.valid
  /\ recon.src1.ran /\ ~recon.src1.ok
  /\ recon.src2.ran => ~recon.src2.ok

\* C15: a cycle in which every source failed gets the empty set from the
\* enumeration and ends with an error event.
AllFailedReported ==
  [][(AllSourcesFailed /\ op' = "Procs") =>
       /\ recon.byKey = << >>
       /\ ended' = "catch"
       /\ HasError(emitted')]_vars

\* -------------------------------------------------------------- the enrichment
\* h2 is h after one more reading u: appended, the oldest dropped if h was full.
Appended(h, u, h2) ==
  IF Len(h) < 6 THEN h2 = Append(h, u) ELSE h2 = Append(Tail(h), u)

\* C16: the metric histories are bounded queues: whatever the cycles in flight, a
\* step leaves each record with at most 6 entries in cpuHistory and in
\* memoryHistory, and changes a history only by appending the reading just taken,
\* dropping the oldest entry when the history was full.
HistoryFifo ==
  [][\A i \in 1..Len(items') :
       LET new == items'[i]
       IN  /\ Len(new.cpuHistory) <= 6
           /\ Len(new.memoryHistory) <= 6
           /\ \A j \in 1..Len(items) :
                items[j].key = new.key =>
                  /\ \/ new.cpuHistory = items[j].cpuHistory
                     \/ Appended(items[j].cpuHistory, new.cpu, new.cpuHistory)
                  /\ \/ new.memoryHistory = items[j].memoryHistory
                     \/ Appended(items[j].memoryHistory, new.memory,
                                 new.memoryHistory)]_vars

\* A reading 2 has just been appended to a full history, whose oldest reading was
\* shifted out, while another scan() is still in flight.
HistoryFifoWitness ==
  /\ op = "Usage"
  /\ cycles # << >>
  /\ \E i \in 1..Len(items) :
       /\ items[i].shifted
       /\ items[i].cpuHistory = << 1, 1, 1, 1, 1, 2 >>
       /\ items[i].memoryHistory = << 1, 1, 1, 1, 1, 2 >>

\* The records the enrich loop of cycle c has still to sample.
Remaining(c) ==
  { items[i].key : i \in { j \in 1..Len(items) :
                             /\ items[j].key \notin c.visited
                             /\ self = "Scanner" => items[j].pid \in c.byPid } }

\* C17: when pidusage fails for an entity, in either engine, no record changes (the
\* entity keeps its cpu, its memory and both histories), no error event is emitted,
\* and the cycle goes on: it awaits pidusage for one of the entities it has still to
\* sample, or, when there is none, ends with its update event.
SamplingFailureIgnored ==
  [][op' = "UsageFailed" =>
       /\ items' = items
       /\ ~HasError(emitted')
       /\ IF Remaining(cycles[1]) = {}
          THEN /\ cycles' = << >>
               /\ ended' = "try"
               /\ emitted' = << Ev("update", NoKey, Payload(items)) >>
          ELSE /\ ended' = "none"
               /\ cycles'[1].pc = "usage"
               /\ cycles'[1].cur \in Remaining(cycles[1])]_vars

\* pidusage has just failed for the first of two servers, which keeps the reading
\* of an earlier cycle, and the cycle is awaiting pidusage for the second.
SamplingFailureIgnoredWitness ==
  /\ op = "UsageFailed"
  /\ Len(items) = 2
  /\ items[1].cpu = 1
  /\ items[1].cpuHistory = << 1 >>
  /\ cycles # << >>
  /\ cycles[1].pc = "usage"
  /\ cycles[1].cur = items[2].key

\* C18: a tracked entity whose process the process listing does not hold is still
\* sampled: when si.processes() has answered, the cycle awaits pidusage for the
\* first record of the map, whatever the listing holds, and emits no error.
UnlistedStillSampled ==
  [][(op' = "Procs" /\ ended' # "catch" /\ items # << >>) =>
       /\ ~HasError(emitted')
       /\ cycles' # << >>
       /\ cycles'[1].pc = "usage"
       /\ cycles'[1].cur = items[1].key]_vars

\* -------------------------------------------------------------- the health prober
\* C19: a health record with a response time t is healthy when t < 500, slow when
\* 500 <= t < 2000 and down when t >= 2000 (499 healthy, 500 and 1999 slow, 2000
\* down); the record of a probe that timed out or failed is down.
HealthClassified ==
  \A i \in 1..Len(results) :
    LET h == results[i]
    IN  /\ h.responseTime # NoTime =>
             /\ h.responseTime < 500 => h.status = "healthy"
             /\ (h.responseTime >= 500 /\ h.responseTime < 2000) => h.status = "slow"
             /\ h.responseTime >= 2000 => h.status = "down"
        /\ h.error # "" => h.status = "down"

\* One server answered after 1999 ms and is slow, the probe of the other timed out
\* and it is down.
HealthClassifiedWitness ==
  /\ Len(results) = 2
  /\ \E i, j \in 1..2 :
       /\ results[i].responseTime = 1999 /\ results[i].status = "slow"
       /\ results[j].error = "Timeout" /\ results[j].status = "down"

\* C20: a health record has a response time or an error, never both and never
\* neither; a record with an error is down; a healthy or slow record has a response
\* time and no error; and a probe that settles, failed or not, emits no error: when
\* it was the last of its checkAll(), the update is emitted with the records.
HealthRecordShape ==
  [][/\ \A i \in 1..Len(results') :
          LET h == results'[i]
          IN  /\ (h.responseTime = NoTime) # (h.error = "")
              /\ h.error # "" => h.status = "down"
              /\ h.status \in {"healthy", "slow"} =>
                   h.responseTime # NoTime /\ h.error = ""
     /\ op' = "ProbeSettle" =>
          /\ ~HasError(emitted')
          /\ Len(checks') < Len(checks) =>
               emitted' = << Ev("update", NoKey, results') >>]_vars

\* The last probe of a checkAll() has settled: one server is healthy after 499 ms,
\* the other refused the connection, and the update went out.
HealthRecordShapeWitness ==
  /\ op = "ProbeSettle"
  /\ emitted = << Ev("update", NoKey, results) >>
  /\ Len(results) = 2
  /\ \E i, j \in 1..2 :
       /\ results[i].status = "healthy" /\ results[i].responseTime = 499
       /\ results[i].error = ""
       /\ results[j].status = "down" /\ results[j].responseTime = NoTime
       /\ results[j].error = "ECONNREFUSED"

HealthKeys(list) == { list[i].key : i \in 1..Len(list) }

\* C21: the keys of the health records are always keys of the server list last
\* pushed with setServers, also when a probe started under an earlier list settles
\* after the push.
ResultsPruned == HealthKeys(results) \subseteq HealthKeys(servers)

\* C22: once the server engine has deleted an entity and emitted its stopped event,
\* no update of the health prober carries a record for the entity's key, whether the
\* engine's cycle is still enriching or ends without an update of its own.
NoHealthAfterStopped ==
  \A k \in DOMAIN lastEv :
    (lastEv[k] = "stopped" /\ op \in {"ProbeSettle", "ProberTick"}) =>
      \A i \in 1..Len(emitted) :
        emitted[i].type = "update" => k \notin HealthKeys(emitted[i].payload)

\* What a step that settles a probe of server s of the checkAll() at place j does
\* to the checkAll() invocations and to the events.
SettlesProbe(j, s) ==
  IF checks[j].pending = {s}
  THEN /\ checks' = RemoveAt(checks, j)
       /\ emitted' = << Ev("update", NoKey, results') >>
  ELSE /\ checks' = [checks EXCEPT ![j].pending = @ \ {s}]
       /\ emitted' = << >>

\* C23: a tick of the prober (start() or the timer) starts one probe per entry of
\* the server list it finds; a probe that settles, failed or not, emits the one
\* update of its tick exactly when it was the last of the tick to settle, and nothing
\* otherwise; no other step emits an update or touches the probes in flight; and
\* every tick gets to its update: the probes in flight all settle.
TickProbesAll ==
  /\ [][/\ op' \in {"HealthStart", "HealthTimerFire"} =>
             IF servers = << >>
             THEN checks' = checks /\ emitted' = << Ev("update", NoKey, results) >>
             ELSE /\ checks' = Append(checks, [pending |-> Range(servers)])
                  /\ Cardinality(Range(servers)) = Len(servers)
                  /\ emitted' = << >>
        /\ op' = "ProbeSettle" =>
             \E j \in 1..Len(checks) : \E s \in checks[j].pending : SettlesProbe(j, s)
        /\ op' \notin {"HealthStart", "HealthTimerFire", "ProbeSettle"} =>
             checks' = checks /\ emitted' = << >>]_vars
  /\ (checks # << >>) ~> (checks = << >>)

\* The two probes of a tick have both failed and the update went out with the two
\* records.
TickProbesAllWitness ==
  /\ op = "ProbeSettle"
  /\ checks = << >>
  /\ Len(servers) = 2
  /\ emitted = << Ev("update", NoKey, results) >>
  /\ Len(results) = 2
  /\ results[1].error # "" /\ results[2].error # ""

\* -------------------------------------------------------------- the cwd cache
\* The last step of a cycle looked the cwd of a process up.
LookedUp == op \in {"Procs", "Usage", "UsageFailed"} /\ cwdLog.kind \in {"hit", "miss"}

\* The entry of cwdCache, for the pid of the lookup just made, is less than 30 s old
\* (the clock counts units of 10 s).
FreshEntry(e) == e.present /\ (clock - e.time) * 10 < 30

\* C24: a lookup of a pid whose cache entry was stored less than 30 s ago returns the
\* cwd of the entry without resolving anything and leaves the cache alone; a lookup
\* with no entry, or with an entry stored 30 s ago or more, starts a resolution, and
\* the resolution, when it settles, replaces the entry by its answer stamped with the
\* time of settling.
CacheTtl ==
  [][/\ LookedUp' =>
          LET e == cwdCache[cwdLog'.pid]
          IN  IF FreshEntry(e)
              THEN /\ cwdLog'.kind = "hit"
                   /\ cwdLog'.cwd = e.cwd
                   /\ cwdCache' = cwdCache
                   /\ \A i \in 1..Len(cycles') : cycles'[i].pc # "cwd"
              ELSE /\ cwdLog'.kind = "miss"
                   /\ cwdCache' = cwdCache
                   /\ \E i \in 1..Len(cycles') :
                        cycles'[i].pc = "cwd" /\ cycles'[i].cur = cwdLog'.key
     /\ op' = "CwdSettle" =>
          cwdCache' = [cwdCache EXCEPT ![cwdLog'.pid] =
                         [present |-> TRUE, cwd |-> cwdLog'.cwd, time |-> clock']]]_vars

\* A lookup finds an entry stored exactly 30 s ago and resolves again.
CacheTtlWitness ==
  /\ LookedUp
  /\ cwdLog.kind = "miss"
  /\ cwdCache[cwdLog.pid].present
  /\ clock - cwdCache[cwdLog.pid].time = 3
  /\ \E i \in 1..Len(cycles) : cycles[i].pc = "cwd"

\* C25: a lookup that finds a fresh entry, holding a directory or holding the
\* unresolved result, runs neither the OS lookup nor the extraction from the command
\* line for that entity.
CacheHitShortCircuits ==
  [][(LookedUp' /\ FreshEntry(cwdCache[cwdLog'.pid])) =>
       /\ cwdLog'.kind = "hit"
       /\ \A i \in 1..Len(cycles') : cycles'[i].pc # "cwd"
       /\ ~cwdLog'.regex]_vars
\* ---- C26
\* The text the classification looks at, and the tests that occur in it.
ClassifiedText == ToLowerCase(procText.command \o << " " >> \o procText.name)

Occurring ==
  { i \in DOMAIN FrameworkPatterns :
      \E p \in FrameworkPatterns[i].any : Includes(ClassifiedText, p) }

FirstOccurring ==
  IF Occurring = {} THEN NoFramework
  ELSE FrameworkPatterns[CHOOSE i \in Occurring : \A j \in Occurring : i <= j].label

\* The records the enrich loop of a cycle has classified and is still at.
JustClassified ==
  { i \in DOMAIN items :
      \E j \in DOMAIN cycles : cycles[j].pc = "usage" /\ cycles[j].cur = items[i].key }

\* C26: the framework of a record the enrich loop has classified is the label of
\* the first test, in the order of the tests, of which a substring occurs in the
\* lower-cased command line, a space and the process name, and is absent when
\* none occurs; a text with both "vite" and "next" gives "Vite", and
\* "next dev --turbo" gives "Next.js".
FrameworkFirstMatch ==
  /\ \A i \in JustClassified :
        /\ items[i].framework = FirstOccurring
        /\ Occurring = {} => items[i].framework = NoFramework
        /\ (Includes(ClassifiedText, << "v", "i", "t", "e" >>) /\ Includes(ClassifiedText, << "n", "e", "x", "t" >>))
             => items[i].framework = "Vite"
        /\ procText = [command |-> << "n", "e", "x", "t", " ", "d", "e", "v", " ", "-", "-", "t", "u", "r", "b", "o" >>,
                       name |-> << >>]
             => items[i].framework = "Next.js"
  /\ \A i \in DOMAIN items : items[i].framework \in { NoFramework, FirstOccurring }

\* A record classified "Vite" from a command line in which "next" comes first
\* and the process name is written in upper case.
FrameworkFirstMatchWitness ==
  /\ procText = [command |-> << "n", "e", "x", "t", " ", "b", "u", "i", "l", "d", " ", "&", "&", " ", "v", "i", "t", "e" >>,
                 name |-> << "N", "E", "X", "T" >>]
  /\ \E i \in JustClassified : items[i].framework = "Vite"

\* ---- C27
\* The record stored under key k.
Stored(its, k) == its[IndexOfKey(its, k)]

\* C27: a key whose stopped event has fired is not in the map, and when a later
\* cycle observes it, the record entered is a new one: the step announces it
\* with a new event, its firstSeen and lastSeen are the time stamp of that cycle,
\* and it has no reading and no history of readings.
NoResurrection ==
  /\ [](\A k \in DOMAIN lastEv : lastEv[k] = "stopped" => k \notin KeysOf(items))
  /\ [][ \A k \in DOMAIN lastEv :
          (lastEv[k] = "stopped" /\ k \in KeysOf(items')) =>
             /\ k \in Created(emitted')
             /\ recon'.valid
             /\ Stored(items', k).firstSeen = recon'.now
             /\ Stored(items', k).lastSeen = recon'.now
             /\ Stored(items', k).cpu = 0
             /\ Stored(items', k).memory = 0
             /\ Stored(items', k).cpuHistory = << >>
             /\ Stored(items', k).memoryHistory = << >>
             /\ ~Stored(items', k).shifted ]_vars

\* A key is back in the map after its stopped event, first seen later than the
\* deleted record was, while an older cycle is still waiting for a reading of the
\* deleted record.
NoResurrectionWitness ==
  \E k \in DOMAIN lastEv :
    /\ lastEv[k] = "again"
    /\ k \in Created(emitted)
    /\ Stored(items, k).firstSeen > 0
    /\ \E j \in DOMAIN cycles :
         cycles[j].pc = "usage" /\ cycles[j].cur = k /\ ~cycles[j].curLive

\* ---- C28
\* The engine suspends its cycles (the script engine enumerates only on win32).
Suspends == self = "Scanner" \/ (self = "AHKScanner" /\ platform = "win32")

\* C28: the cycles of an engine are not serialized: while a cycle is in flight,
\* start() and, for the server engine, the manual refresh can be called, and a
\* timer that is due fires; each of them begins a further cycle at its first
\* await and leaves the cycles in flight as they are.
NotSerialized ==
  /\ []((Suspends /\ cycles # << >> /\ Len(cycles) < MaxCycles) =>
          /\ ENABLED Start
          /\ self = "Scanner" => ENABLED Refresh
          /\ \A i \in DOMAIN liveTimers :
                clock = liveTimers[i].nextFire => ENABLED TimerFire(i))
  /\ [][ (Suspends /\ op' \in {"Start", "TimerFire", "Refresh"}) =>
            /\ Len(cycles') = Len(cycles) + 1
            /\ SubSeq(cycles', 1, Len(cycles)) = cycles
            /\ cycles'[Len(cycles')].pc = "src1"
            /\ cycles'[Len(cycles')].now = clock ]_vars

\* Two cycles of the engine in flight, the second begun by a timer tick while
\* the first waits for its enumeration.
NotSerializedWitness ==
  /\ op = "TimerFire"
  /\ Len(cycles) = 2
  /\ cycles[1].pc = "src1"
  /\ cycles[1].now < cycles[2].now

\* ---- C29
\* C29: the active timer of either engine has the stored scanIntervalMs as its
\* period, the interval the stale removal doubles, also after settings:update
\* has stored another interval.
TimerFollowsSettings ==
  timer # 0 => liveTimers[timer].period = settings.scanIntervalMs

\* ---- C30
\* C30: the lastSeen of a record that stays in the map never decreases, whichever
\* cycle refreshes it.
LastSeenMonotonic ==
  [][ \A k \in KeysOf(items) \cap KeysOf(items') :
        Stored(items', k).lastSeen >= Stored(items, k).lastSeen ]_vars

\* ---- C31
\* C31: every record in the map was first seen no later than it was last seen.
FirstSeenBeforeLastSeen ==
  \A i \in DOMAIN items : items[i].firstSeen <= items[i].lastSeen

\* ---- C32
\* The keys whose last event is a new.
Announced == { k \in DOMAIN lastEv : lastEv[k] \in {"new", "again"} }

\* C32: under every interleaving of the cycles, the keys of the payload of every
\* update an engine emits are the keys it has announced with new and not yet
\* with stopped.
SnapshotMatchesEvents ==
  EngineMode =>
    \A j \in DOMAIN emitted :
      emitted[j].type = "update" => KeysOf(emitted[j].payload) = Announced

\* An update that carries a key announced a second time, another cycle in flight.
SnapshotMatchesEventsWitness ==
  /\ EngineMode
  /\ cycles # << >>
  /\ \E j \in DOMAIN emitted, k \in DOMAIN lastEv :
       /\ emitted[j].type = "update"
       /\ lastEv[k] = "again"
       /\ k \in KeysOf(emitted[j].payload)

\* ---- C33
\* The events of one type among evs.
OfType(evs, type) == { j \in DOMAIN evs : evs[j].type = type }

\* C33: a cycle of an engine ends with exactly one terminal event: the step in
\* which it leaves the try block emits one update and no error, the step in which
\* it is caught emits one error and no update, no other step of a cycle emits
\* either, and a cycle leaves the cycles in flight only by one of the two.
OneTerminalEvent ==
  [][ EngineMode =>
        /\ ended' = "try" =>
              /\ Cardinality(OfType(emitted', "update")) = 1
              /\ OfType(emitted', "error") = {}
        /\ ended' = "catch" =>
              /\ Cardinality(OfType(emitted', "error")) = 1
              /\ OfType(emitted', "update") = {}
        /\ ended' = "none" =>
              /\ OfType(emitted', "update") = {}
              /\ OfType(emitted', "error") = {}
              /\ Len(cycles') >= Len(cycles) ]_vars

\* A cycle has ended with its update after an earlier cycle, still in flight,
\* had begun.
OneTerminalEventWitness ==
  /\ EngineMode
  /\ ended = "try"
  /\ OfType(emitted, "update") # {}
  /\ cycles # << >>
  /\ op \in {"Usage", "UsageFailed"}

\* ---- C34
\* C34: every record of the server engine's map is stored under its own key, the
\* key is made of its pid and its port, both are non-zero, and its url is
\* "http://localhost:" followed by its port; no new event announces a key with
\* pid 0 or port 0.
IdentityIntegrity ==
  self = "Scanner" =>
    /\ \A i \in DOMAIN items :
          /\ items[i].key = << items[i].pid, items[i].port >>
          /\ items[i].pid # 0
          /\ items[i].port # 0
          /\ items[i].url = << "http://localhost:", items[i].port >>
          /\ \A j \in DOMAIN items : items[j].key = items[i].key => j = i
    /\ \A j \in DOMAIN emitted :
          emitted[j].type = "new" => (emitted[j].key[1] # 0 /\ emitted[j].key[2] # 0)

\* With every port scanned, a cycle has reconciled an enumeration that lists a
\* tuple without pid, a tuple without port and a complete tuple.
IdentityIntegrityWitness ==
  /\ self = "Scanner"
  /\ settings.scanAllPorts
  /\ recon.valid
  /\ Len(recon.byKey) = 3
  /\ KeysOf(items) = { << 100, 3000 >> }

\* ---- C35
\* C35: when a cycle has completed, the cwd cache holds entries only for pids of
\* records that are in the map.
CacheFollowsItems ==
  (self = "Scanner" /\ ended = "try") =>
    \A pid \in DOMAIN cwdCache :
      cwdCache[pid].present => \E i \in DOMAIN items : items[i].pid = pid

\* ---- C36
\* The last element of a history.
Last(h) == h[Len(h)]

\* C36: the cpuHistory and the memoryHistory of every record are both absent or
\* both present with the same length, and when present they end with the
\* record's current cpu and memory.
HistoriesAgree ==
  \A i \in DOMAIN items :
    /\ Len(items[i].cpuHistory) = Len(items[i].memoryHistory)
    /\ items[i].cpuHistory # << >> =>
          /\ Last(items[i].cpuHistory) = items[i].cpu
          /\ Last(items[i].memoryHistory) = items[i].memory

\* Full histories that have lost a reading and hold different readings.
HistoriesAgreeWitness ==
  \E i \in DOMAIN items :
    /\ items[i].shifted
    /\ Len(items[i].cpuHistory) = HISTORY_LEN
    /\ Last(items[i].cpuHistory) # Head(items[i].cpuHistory)
    /\ cycles # << >>

\* ---- C37
\* A port number, or a pair [lo, hi] with lo <= hi.
WellFormedEntry(p) ==
  /\ DOMAIN p = { "isArray", "lo", "hi" }
  /\ p.lo <= p.hi
  /\ ~p.isArray => p.lo = p.hi

\* C37: every element of the ports parsePorts has given to the settings is a
\* port number or a pair [lo, hi] with lo <= hi; a token that is no number
\* gives no element.
ParsedPortsWellFormed ==
  op = "PortsUpdate" => \A i \in DOMAIN settings.ports : WellFormedEntry(settings.ports[i])

\* ---- C38
\* C38: a reset to idle scheduled when the status became not-available or error
\* replaces only that status: when it fires, the status is still the one that
\* scheduled it.
ResetReplacesOwnStatus ==
  [][ /\ op' = "ResetNotAvailable" => currentStatus = "not-available"
      /\ op' = "ResetError" => currentStatus = "error" ]_vars

\* ---- C39
\* C39: after any number of initUpdater calls in a packaged app, in any status,
\* every auto-updater event has exactly one registered handler and every
\* updater channel exactly one handler.
OneHandlerEach ==
  (self = "Updater" /\ isPackaged /\ inits > 0) =>
     /\ \A ev \in UpdaterEvents : listeners[ev] = 1
     /\ \A ch \in UpdaterChannels : ipcHandlers[ch] = 1

\* initUpdater has been called again while an update was on offer, and has
\* removed and added the listeners a second time.
OneHandlerEachWitness ==
  /\ self = "Updater"
  /\ isPackaged
  /\ inits = MaxInits
  /\ op = "InitUpdater"
  /\ currentStatus = "available"
  /\ \A ev \in UpdaterEvents : listeners[ev] = 1

====
